---- MODULE Spec2Model ----
(***************************************************************************)
(* Model of VIVAANXMUSIC/utils/audio/worker.py (AudioWorker, AudioTask)    *)
(* as it is wired by plugins/audio_tools/spatial/handler.py: one           *)
(* process_worker coroutine created by init_worker, and the public         *)
(* coroutines start(), stop() and enqueue() called from other coroutines   *)
(* of the same asyncio event loop.                                         *)
(*                                                                         *)
(* Scheduling is cooperative: a coroutine runs until it awaits.  The       *)
(* dispatcher's position is pc; the positions at which it is suspended     *)
(* (and other coroutines may run) are given by Yielded.  engine.           *)
(* process_audio_file is a synchronous call, so nothing else runs between  *)
(* "status = processing" and the terminal status.                          *)
(***************************************************************************)
EXTENDS Integers, Sequences, FiniteSets, TLC

\* ---------------------------------------------------------------- bounds
\* number of enqueue() calls (each call brings a fresh task id)
MaxTasks == 3
\* number of distinct user ids
NumUsers == 1
\* number of start() calls that install a fresh queue and semaphore
MaxStarts == 2
\* last value of the clock read by time.time()
MaxTime == 2
\* handler.py builds its worker with AudioWorker(max_concurrent=2)
MaxConcurrent == 2
\* pending-queue capacity: stands for the literal 50 of worker.py:103,
\* scaled so that the model fills the queue
QueueCap == 2

\* largest older_than_hours passed to cleanup_old_tasks (the clock counts hours)
MaxHours == 1

TaskIds == 1..MaxTasks
Users == 1..NumUsers
Gens == 1..MaxStarts

None == "None"
WorkerStopped == "Worker stopped"
ProcessingFailed == "Processing failed or output not created"
\* str(e) of an exception raised inside the try block of process_worker
StrE == "str(e)"

Terminal == {"completed", "failed"}
Active == {"queued", "processing"}

VARIABLES
    running,         \* self.running
    max_concurrent,  \* self.max_concurrent
    started,         \* what the last start() call logged (None: no call yet)
    gen,             \* which Queue/Semaphore objects self.queue and self.semaphore name; 0: None
    queue,           \* contents of the Queue object of each generation
    unfinished,      \* Queue._unfinished_tasks of each generation
    sem,             \* Semaphore._value of each generation
    tasks,           \* self.tasks: task_id -> AudioTask
    user_tasks,      \* self.user_tasks: user_id -> list of task ids
    nextid,          \* the task id of the next enqueue() call
    ret,             \* what the last enqueue() call returned ("True", "False"; None: no call yet)
    now,             \* time.time()
    files,           \* task ids whose input_path exists
    pc,              \* position of the process_worker coroutine
    cur,             \* local `task` of process_worker; 0: none
    dq,              \* generation of the queue the pending self.queue.get() is on
    ds,              \* generation of the semaphore entered by `async with`
    success,         \* local `success` of process_worker (None, or how the engine call ended)
    exists,          \* what task.output_path.exists() answered in this iteration
    cb_exc,          \* whether the callback of the last finished iteration raised
    cbcount,         \* how often each task's callback has been invoked
    ended,           \* when each task last became completed or failed; 0: it is neither
    \* ---- AudioCache (utils/audio/cache.py)
    payload,         \* size of the payload file <preset>/<hash>.mp3 of each cache path; 0: no file
    meta,            \* the metadata file <preset>/<hash>.json of each cache path
    last_cleanup,    \* self._last_cleanup
    got,             \* what the last get() returned: <<>> for None, <<path>> for a path
    log,             \* what the last get() logged
    cpc,             \* position of the set() call in progress
    call,            \* its locals cache_path and output_path.exists(); <<>>: no call
    entries,         \* entries_with_time of the cleanup pass that has just run: (path,
                     \* created_at), sorted; <<>> once the next call starts
    passes,          \* how often the body of _cleanup_if_needed has run
    processed,       \* bytes of the output files in cache_dir/processed (handler.py:207-209)
    \* ---- direct calls of AudioCache.delete
    deleted,         \* the cache paths delete() has been called with, in order
    dret,            \* what the last delete() call returned (None: no call yet)
    \* ---- plugins/audio_tools/spatial/handler.py
    user_requests,   \* user_requests: user_id -> times of the admitted requests
    user_processing, \* user_processing: user_id -> counter (0 where the dict has no key)
    rpc,             \* position of each _process_spatialize call
    req,             \* its user_id, file_data and preset_name
    outcome,         \* how each call ended
    closure,         \* the request whose locals the task_callback of each task closes over
    hcb,             \* position of the task_callback in progress
    sret,            \* what the last cache.set() call of a callback returned
    sent,            \* tasks whose output the callback passed to reply_audio
    escaped,         \* an exception has left cache.get() or cache.set()
    downloads,       \* requests whose downloaded input file is on disk after the call
                     \* has ended without handing it to a task
    \* ---- a get() call that runs while a set() call is suspended (cache.py)
    gpc,             \* position of the get() call in progress
    gcall,           \* its local cache_path; <<>>: no call
    gmeta,           \* the content of the metadata file it has read
    orphan,          \* the metadata file set() holds open for writing has been unlinked
    \* ---- utils/audio/presets.py, utils/audio/engine.py
    PRESETS,         \* the dict PRESETS: key -> HRIRPreset
    hrir,            \* self.hrir_l and self.hrir_r; <<>>: both None
    epc,             \* position of the process_audio_file (or spatialize) call
    ecall,           \* the argument preset_name of process_audio_file
    preset,          \* its local preset (the argument preset of a direct spatialize call)
    wav,             \* whether the file wav_path (<output stem>_temp.wav) exists
    audio_data,      \* the array read from wav_path (the argument audio of a direct call)
    spatialized,     \* the array spatialize returned
    eret,            \* what process_audio_file returned (None: it has not returned)
    eout             \* whether output_path exists

cacheVars == <<payload, meta, last_cleanup, got, log, cpc, call, entries, passes, processed>>

deleteVars == <<deleted, dret>>

\* the state of the parts that the worker and the cache do not touch
handlerVars == <<user_requests, user_processing, rpc, req, outcome, closure, hcb, sret,
                 sent, escaped, downloads>>

raceVars == <<gpc, gcall, gmeta, orphan>>

\* the parts outside the worker, the cache and the handler
engineVars == <<PRESETS, hrir, epc, ecall, preset, wav, audio_data, spatialized, eret, eout>>

sideVars == <<deleteVars, raceVars, engineVars>>

extVars == <<sideVars, handlerVars>>

vars == <<running, max_concurrent, started, gen, queue, unfinished, sem, tasks, user_tasks,
          nextid, ret, now, files, pc, cur, dq, ds, success, exists, cb_exc, cbcount,
          ended, cacheVars, extVars>>

workerState == <<running, max_concurrent, started, gen, queue, unfinished, sem, tasks, user_tasks>>
loopState == <<pc, cur, dq, ds, success, exists, cb_exc, cbcount>>

\* ------------------------------------------------------------- AudioTask
AudioTask(user_id, callback) ==
    [ user_id    |-> user_id,
      status     |-> "queued",
      progress   |-> 0,
      error      |-> None,
      result     |-> <<>>,
      callback   |-> callback,
      start_time |-> 0,
      end_time   |-> 0 ]

get_duration(task) ==
    IF task.start_time # 0 /\ task.end_time # 0 THEN task.end_time - task.start_time
    ELSE IF task.start_time # 0 THEN now - task.start_time
    ELSE 0

\* ------------------------------------------------------------------ Init
\* ------------------------------------------------------------ AudioCache
\* config.CACHE_ENABLED
CACHE_ENABLED == TRUE
\* config.CACHE_TTL (86400 s), in ticks of the cache clock
CACHE_TTL == 2
\* config.CACHE_CHECK_INTERVAL (1800 s), in ticks of the cache clock
CACHE_CHECK_INTERVAL == 1
\* config.MAX_CACHE_SIZE (1 GB), in units of file size
MAX_CACHE_SIZE == 8
\* the newest entries the size eviction keeps: stands for the literal 5 of cache.py:214
KeepFloor == 1
\* number of ticks the cache clock advances
CacheClockSpan == 3
\* most bytes of output files the model lets the engine write
MaxProcessed == 9
\* number of direct delete() calls
MaxDeletes == 2

\* ---- handler.py
\* number of _process_spatialize calls
MaxRequests == 3
\* config.USER_MAX_CONCURRENT (2), scaled down with the queue capacity (50, here
\* QueueCap) and the hourly limit, so that it stays the smallest of the three
USER_MAX_CONCURRENT == 1
\* requests a user may make in an hour: stands for the literal 10 of handler.py:70
HourlyLimit == 2
\* timedelta(hours=1), in ticks of the clock
Hour == 2
\* users and calls of _check_rate_limit when it is called on its own
NumRateUsers == 2
MaxRateRequests == 5

\* config.MAX_FILE_SIZE (bytes), MAX_DURATION and MIN_DURATION (seconds)
MAX_FILE_SIZE == 104857600
MAX_DURATION == 600
MIN_DURATION == 5

Requests == 1..MaxRequests
RateUsers == 1..NumRateUsers
RateRequests == 1..MaxRateRequests
\* the file contents the requests bring
HandlerInputs == {<<"a">>}
HandlerPresets == {<<"c">>}

\* time.time() when the cache is constructed: later than the TTL after the epoch
Epoch == CACHE_TTL + 1

\* file contents and preset ids, as strings of characters
Inputs == {<<"a">>, <<"a", "b">>}
PresetIds == {<<"c">>, <<"b", "c">>}

\* what output_path.exists() answers when set() is called: the callback of handler.py
\* calls set() for a completed task, the worker completes a task only when its
\* output_path exists (worker.py:174), and nothing of the program removes an output file
OutputExists == {TRUE}

\* output_path.stat().st_size of the file the engine produces from file_data under
\* preset_id: one size for each content and preset
st_size(file_data, preset_id) == Len(file_data) * Len(preset_id)

\* hashlib.md5(...).hexdigest(): a digest, taken as free of collisions
md5(data) == [digest |-> data]

\* _compute_hash: the digest of file_data + preset_id.encode()
compute_hash(file_data, preset_id) == md5(file_data \o preset_id)

\* a cache path that leaves out the preset directory
get_cache_path_Flat(cache_hash, preset_id) == [dir |-> <<>>, stem |-> cache_hash]

\* _get_cache_path: cache_dir / preset_id / "<hash>.mp3"
get_cache_path(cache_hash, preset_id) == [dir |-> preset_id, stem |-> cache_hash]

\* the cache path get() and set() compute for (file_data, preset_id); the metadata file
\* of a cache path (_get_metadata_path) has the same directory and stem
PathOf(file_data, preset_id) == get_cache_path(compute_hash(file_data, preset_id), preset_id)

Paths == {PathOf(b, p) : b \in Inputs, p \in PresetIds}

\* no payload file; a payload file holds the output produced from (input, preset)
NoPayload == [size |-> 0, input |-> <<>>, preset |-> <<>>]
\* no metadata file; json: the file parses
NoMeta == [file |-> FALSE, json |-> FALSE, created_at |-> 0]

\* AudioCache.__init__
CacheConstructed ==
    /\ payload = [cp \in Paths |-> NoPayload]
    /\ meta = [cp \in Paths |-> NoMeta]
    /\ last_cleanup = now
    /\ got = <<>>
    /\ log = ""
    /\ cpc = "idle"
    /\ call = <<>>
    /\ entries = <<>>
    /\ passes = 0
    /\ processed = 0

\* ---- presets.py, engine.py
\* a sample of 1.0, in the units the samples are counted in
Scale == 1000
\* 1.0 as a filter coefficient
CoefScale == 10000
\* the spacing of the float32 values, in the units of the float64 samples
F32Step == 2
\* config.DEFAULT_SAMPLE_RATE
DEFAULT_SAMPLE_RATE == 48000

\* EQPresets: the bands as (frequency in Hz, gain in tenths of a dB, q_factor in tenths);
\* "list()" is the empty list of field(default_factory=list)
EQPresets ==
       "list()" :> <<>>
    @@ "CINEMA_EQ" :>
      <<[frequency |-> 63, gain |-> 20, q_factor |-> 7],
         [frequency |-> 125, gain |-> 15, q_factor |-> 7],
         [frequency |-> 250, gain |-> 5, q_factor |-> 7],
         [frequency |-> 500, gain |-> -5, q_factor |-> 7],
         [frequency |-> 1000, gain |-> 0, q_factor |-> 7],
         [frequency |-> 2000, gain |-> 10, q_factor |-> 7],
         [frequency |-> 4000, gain |-> 20, q_factor |-> 7],
         [frequency |-> 8000, gain |-> 15, q_factor |-> 7],
         [frequency |-> 16000, gain |-> 5, q_factor |-> 7]>>
    @@ "MAXWIDE_EQ" :>
      <<[frequency |-> 63, gain |-> 30, q_factor |-> 7],
         [frequency |-> 125, gain |-> 20, q_factor |-> 7],
         [frequency |-> 250, gain |-> 0, q_factor |-> 7],
         [frequency |-> 500, gain |-> -10, q_factor |-> 7],
         [frequency |-> 1000, gain |-> -5, q_factor |-> 7],
         [frequency |-> 2000, gain |-> 15, q_factor |-> 7],
         [frequency |-> 4000, gain |-> 30, q_factor |-> 7],
         [frequency |-> 8000, gain |-> 25, q_factor |-> 7],
         [frequency |-> 16000, gain |-> 10, q_factor |-> 7]>>
    @@ "BASSBOOST_EQ" :>
      <<[frequency |-> 63, gain |-> 60, q_factor |-> 7],
         [frequency |-> 125, gain |-> 40, q_factor |-> 7],
         [frequency |-> 250, gain |-> 20, q_factor |-> 7],
         [frequency |-> 500, gain |-> 0, q_factor |-> 7],
         [frequency |-> 1000, gain |-> -5, q_factor |-> 7],
         [frequency |-> 2000, gain |-> 0, q_factor |-> 7],
         [frequency |-> 4000, gain |-> 5, q_factor |-> 7],
         [frequency |-> 8000, gain |-> 0, q_factor |-> 7],
         [frequency |-> 16000, gain |-> -5, q_factor |-> 7]>>
    @@ "VOCAL_EQ" :>
      <<[frequency |-> 63, gain |-> -20, q_factor |-> 7],
         [frequency |-> 125, gain |-> -10, q_factor |-> 7],
         [frequency |-> 250, gain |-> 0, q_factor |-> 7],
         [frequency |-> 500, gain |-> 20, q_factor |-> 7],
         [frequency |-> 1000, gain |-> 30, q_factor |-> 7],
         [frequency |-> 2000, gain |-> 35, q_factor |-> 7],
         [frequency |-> 4000, gain |-> 20, q_factor |-> 7],
         [frequency |-> 8000, gain |-> 5, q_factor |-> 7],
         [frequency |-> 16000, gain |-> -10, q_factor |-> 7]>>
    @@ "NEUTRAL_EQ" :>
      <<[frequency |-> 63, gain |-> 0, q_factor |-> 7],
         [frequency |-> 125, gain |-> 0, q_factor |-> 7],
         [frequency |-> 250, gain |-> 0, q_factor |-> 7],
         [frequency |-> 500, gain |-> 0, q_factor |-> 7],
         [frequency |-> 1000, gain |-> 0, q_factor |-> 7],
         [frequency |-> 2000, gain |-> 0, q_factor |-> 7],
         [frequency |-> 4000, gain |-> 0, q_factor |-> 7],
         [frequency |-> 8000, gain |-> 0, q_factor |-> 7],
         [frequency |-> 16000, gain |-> 0, q_factor |-> 7]>>
    @@ "MONITOR_EQ" :>
      <<[frequency |-> 63, gain |-> -10, q_factor |-> 7],
         [frequency |-> 125, gain |-> -5, q_factor |-> 7],
         [frequency |-> 250, gain |-> 0, q_factor |-> 7],
         [frequency |-> 500, gain |-> 5, q_factor |-> 7],
         [frequency |-> 1000, gain |-> 0, q_factor |-> 7],
         [frequency |-> 2000, gain |-> -5, q_factor |-> 7],
         [frequency |-> 4000, gain |-> 0, q_factor |-> 7],
         [frequency |-> 8000, gain |-> -5, q_factor |-> 7],
         [frequency |-> 16000, gain |-> -10, q_factor |-> 7]>>
    @@ "CLUB_EQ" :>
      <<[frequency |-> 63, gain |-> 40, q_factor |-> 7],
         [frequency |-> 125, gain |-> 30, q_factor |-> 7],
         [frequency |-> 250, gain |-> 10, q_factor |-> 7],
         [frequency |-> 500, gain |-> -20, q_factor |-> 7],
         [frequency |-> 1000, gain |-> -20, q_factor |-> 7],
         [frequency |-> 2000, gain |-> 0, q_factor |-> 7],
         [frequency |-> 4000, gain |-> 30, q_factor |-> 7],
         [frequency |-> 8000, gain |-> 35, q_factor |-> 7],
         [frequency |-> 16000, gain |-> 20, q_factor |-> 7]>>

\* PRESETS of presets.py; the exaggerations are in hundredths
Catalog ==
       <<"c", "i", "n", "e", "m", "a">> :>
        [name |-> "Cinema", eq_preset |-> "CINEMA_EQ", use_eq |-> TRUE,
         ild_exaggeration |-> 120, itd_exaggeration |-> 110,
         normalize_loudness |-> TRUE, target_loudness |-> -14]
    @@ <<"m", "a", "x", "w", "i", "d", "e">> :>
        [name |-> "MaxWide", eq_preset |-> "MAXWIDE_EQ", use_eq |-> TRUE,
         ild_exaggeration |-> 150, itd_exaggeration |-> 130,
         normalize_loudness |-> TRUE, target_loudness |-> -14]
    @@ <<"b", "a", "s", "s", "b", "o", "o", "s", "t">> :>
        [name |-> "BassBoost", eq_preset |-> "BASSBOOST_EQ", use_eq |-> TRUE,
         ild_exaggeration |-> 100, itd_exaggeration |-> 100,
         normalize_loudness |-> TRUE, target_loudness |-> -14]
    @@ <<"v", "o", "c", "a", "l">> :>
        [name |-> "Vocal", eq_preset |-> "VOCAL_EQ", use_eq |-> TRUE,
         ild_exaggeration |-> 80, itd_exaggeration |-> 80,
         normalize_loudness |-> TRUE, target_loudness |-> -14]
    @@ <<"n", "e", "u", "t", "r", "a", "l">> :>
        [name |-> "Neutral", eq_preset |-> "NEUTRAL_EQ", use_eq |-> TRUE,
         ild_exaggeration |-> 100, itd_exaggeration |-> 100,
         normalize_loudness |-> TRUE, target_loudness |-> -14]
    @@ <<"m", "o", "n", "i", "t", "o", "r">> :>
        [name |-> "Monitor", eq_preset |-> "MONITOR_EQ", use_eq |-> TRUE,
         ild_exaggeration |-> 90, itd_exaggeration |-> 95,
         normalize_loudness |-> TRUE, target_loudness |-> -14]
    @@ <<"c", "l", "u", "b">> :>
        [name |-> "Club", eq_preset |-> "CLUB_EQ", use_eq |-> TRUE,
         ild_exaggeration |-> 130, itd_exaggeration |-> 120,
         normalize_loudness |-> TRUE, target_loudness |-> -14]

\* the normalised coefficients <<b0, b1, b2, a1, a2>> of the peaking filter of a band at
\* sr = 48000, in units of 1/CoefScale
PeakingCoef ==
       <<63, -20, 7>> :> <<9986, -19868, 9882, -19868, 9869>>
    @@ <<63, -10, 7>> :> <<9993, -19875, 9883, -19875, 9876>>
    @@ <<63, 20, 7>> :> <<10014, -19895, 9882, -19895, 9896>>
    @@ <<63, 30, 7>> :> <<10020, -19901, 9881, -19901, 9901>>
    @@ <<63, 40, 7>> :> <<10027, -19906, 9880, -19906, 9907>>
    @@ <<63, 60, 7>> :> <<10041, -19916, 9876, -19916, 9917>>
    @@ <<125, -10, 7>> :> <<9987, -19753, 9769, -19753, 9755>>
    @@ <<125, -5, 7>> :> <<9993, -19760, 9769, -19760, 9762>>
    @@ <<125, 15, 7>> :> <<10020, -19785, 9768, -19785, 9788>>
    @@ <<125, 20, 7>> :> <<10027, -19791, 9767, -19791, 9794>>
    @@ <<125, 30, 7>> :> <<10040, -19803, 9765, -19803, 9805>>
    @@ <<125, 40, 7>> :> <<10054, -19813, 9762, -19813, 9816>>
    @@ <<250, 5, 7>> :> <<10013, -19545, 9543, -19545, 9556>>
    @@ <<250, 10, 7>> :> <<10026, -19558, 9542, -19558, 9568>>
    @@ <<250, 20, 7>> :> <<10053, -19581, 9539, -19581, 9592>>
    @@ <<500, -20, 7>> :> <<9898, -18963, 9106, -18963, 9004>>
    @@ <<500, -10, 7>> :> <<9949, -19016, 9108, -19016, 9057>>
    @@ <<500, -5, 7>> :> <<9974, -19042, 9108, -19042, 9083>>
    @@ <<500, 5, 7>> :> <<10026, -19091, 9106, -19091, 9132>>
    @@ <<500, 20, 7>> :> <<10103, -19159, 9097, -19159, 9201>>
    @@ <<1000, -20, 7>> :> <<9805, -17951, 8301, -17951, 8106>>
    @@ <<1000, -5, 7>> :> <<9951, -18093, 8298, -18093, 8249>>
    @@ <<1000, 30, 7>> :> <<10300, -18387, 8245, -18387, 8545>>
    @@ <<2000, -5, 7>> :> <<9911, -16230, 6892, -16230, 6803>>
    @@ <<2000, 10, 7>> :> <<10181, -16448, 6847, -16448, 7028>>
    @@ <<2000, 15, 7>> :> <<10273, -16518, 6827, -16518, 7100>>
    @@ <<2000, 35, 7>> :> <<10652, -16782, 6723, -16782, 7374>>
    @@ <<4000, 5, 7>> :> <<10153, -12858, 4695, -12858, 4848>>
    @@ <<4000, 20, 7>> :> <<10625, -13138, 4546, -13138, 5171>>
    @@ <<4000, 30, 7>> :> <<10953, -13318, 4425, -13318, 5379>>
    @@ <<8000, -5, 7>> :> <<9782, -6110, 2438, -6110, 2220>>
    @@ <<8000, 5, 7>> :> <<10222, -6246, 2269, -6246, 2492>>
    @@ <<8000, 15, 7>> :> <<10682, -6380, 2077, -6380, 2760>>
    @@ <<8000, 25, 7>> :> <<11163, -6512, 1860, -6512, 3024>>
    @@ <<8000, 35, 7>> :> <<11667, -6641, 1616, -6641, 3283>>
    @@ <<16000, -10, 7>> :> <<9570, 6041, 2513, 6041, 2083>>
    @@ <<16000, -5, 7>> :> <<9782, 6110, 2438, 6110, 2220>>
    @@ <<16000, 5, 7>> :> <<10222, 6246, 2269, 6246, 2492>>
    @@ <<16000, 10, 7>> :> <<10450, 6313, 2177, 6313, 2626>>
    @@ <<16000, 20, 7>> :> <<10920, 6446, 1972, 6446, 2892>>

\* signal.butter(2, 75, btype='high', fs=48000): one section <<b0, b1, b2, a1, a2>>
HighpassCoef == <<9931, -19862, 9931, -19861, 9862>>

\* np.tanh at 0, 0.05, 0.10, ... 5.0, in thousandths
TanhTable ==
    <<0, 50, 100, 149, 197, 245, 291, 336, 380, 422,
      462, 501, 537, 572, 604, 635, 664, 691, 716, 740,
      762, 782, 800, 818, 834, 848, 862, 874, 885, 896,
      905, 914, 922, 929, 935, 941, 947, 952, 956, 960,
      964, 967, 970, 973, 976, 978, 980, 982, 984, 985,
      987, 988, 989, 990, 991, 992, 993, 993, 994, 995,
      995, 996, 996, 996, 997, 997, 997, 998, 998, 998,
      998, 998, 999, 999, 999, 999, 999, 999, 999, 999,
      999, 999, 999, 1000, 1000, 1000, 1000, 1000, 1000, 1000,
      1000, 1000, 1000, 1000, 1000, 1000, 1000, 1000, 1000, 1000,
      1000>>

\* 10 ** ((target_loudness + 0.691) / 20), in thousandths
LinearOf == (-14 :> 216)

\* the engine when it has been constructed without HRIR files, and no call made
EngineIdle ==
    /\ PRESETS = Catalog
    /\ hrir = <<>>
    /\ epc = "idle"
    /\ ecall = <<>>
    /\ preset = None
    /\ wav = FALSE
    /\ audio_data = None
    /\ spatialized = None
    /\ eret = None
    /\ eout = FALSE

\* no delete() call has been made
DeleteIdle == deleted = <<>> /\ dret = None

\* handler.py when the module has been imported: no request yet
HandlerConstructed ==
    /\ user_requests = [u \in RateUsers |-> <<>>]
    /\ user_processing = [u \in RateUsers |-> 0]
    /\ rpc = [r \in RateRequests |-> "new"]
    /\ req = [r \in RateRequests |-> [user_id |-> 0, file_data |-> <<>>, preset_name |-> <<>>]]
    /\ outcome = [r \in RateRequests |-> None]
    /\ closure = [t \in TaskIds |-> 0]
    /\ hcb = None
    /\ sret = None
    /\ sent = {}
    /\ escaped = FALSE
    /\ downloads = {}

\* no get() call is suspended
RaceIdle == gpc = "idle" /\ gcall = <<>> /\ gmeta = NoMeta /\ orphan = FALSE

ExtIdle == DeleteIdle /\ HandlerConstructed /\ RaceIdle /\ EngineIdle

\* AudioWorker.__init__: the worker of handler.py before init_worker
WorkerConstructed ==
    /\ running = FALSE
    /\ max_concurrent = MaxConcurrent
    /\ started = None
    /\ gen = 0
    /\ queue = [g \in Gens |-> <<>>]
    /\ unfinished = [g \in Gens |-> 0]
    /\ sem = [g \in Gens |-> max_concurrent]
    /\ tasks = <<>>
    /\ user_tasks = <<>>
    /\ nextid = 1
    /\ ret = None
    /\ files = {}
    /\ pc = "unspawned"
    /\ cur = 0
    /\ dq = 0
    /\ ds = 0
    /\ success = None
    /\ exists = FALSE
    /\ cb_exc = FALSE
    /\ cbcount = [t \in TaskIds |-> 0]
    /\ ended = [t \in TaskIds |-> 0]

Init ==
    /\ now = 1
    /\ WorkerConstructed
    /\ CacheConstructed
    /\ ExtIdle

\* The process_worker coroutine is suspended: at the await of queue.get, inside an
\* awaited callback, in asyncio.sleep, blocked on the semaphore, or finished.
\* Nothing calls the worker before the loop has reached its first queue.get: bot.py
\* registers the handlers and awaits init_worker without suspending in between, and
\* create_task schedules the loop ahead of every handler call that follows.
\* wait_for(self.queue.get()) counts as a suspension also when the queue holds a
\* task (before Python 3.12 wait_for always runs get() in a task of its own).
Yielded ==
    \/ pc \in {"get", "cbawait", "sleep", "exited"}
    \/ pc = "acquire" /\ sem[ds] = 0

\* ------------------------------------------------------ AudioWorker.start
AlreadyRunning == "Worker already running"
WorkerStarted == "Audio worker started"

\* a start() that installs a new queue and semaphore whether or not the worker runs
start_Always ==
    /\ gen < MaxStarts
    /\ started' = WorkerStarted
    /\ running' = TRUE
    /\ gen' = gen + 1
    /\ queue' = [queue EXCEPT ![gen + 1] = <<>>]
    /\ unfinished' = [unfinished EXCEPT ![gen + 1] = 0]
    /\ sem' = [sem EXCEPT ![gen + 1] = max_concurrent]
    /\ UNCHANGED <<max_concurrent, tasks, user_tasks>>

start ==
    IF running
    THEN /\ started' = AlreadyRunning
         /\ UNCHANGED <<running, max_concurrent, gen, queue, unfinished, sem, tasks, user_tasks>>
    ELSE /\ gen < MaxStarts
         /\ started' = WorkerStarted
         /\ running' = TRUE
         /\ gen' = gen + 1
         /\ queue' = [queue EXCEPT ![gen + 1] = <<>>]
         /\ unfinished' = [unfinished EXCEPT ![gen + 1] = 0]
         /\ sem' = [sem EXCEPT ![gen + 1] = max_concurrent]
         /\ UNCHANGED <<max_concurrent, tasks, user_tasks>>

\* ------------------------------------------------------- AudioWorker.stop
StopTask(task) ==
    IF task.status \in Active
    THEN [task EXCEPT !.status = "failed", !.error = WorkerStopped]
    ELSE task

stop ==
    /\ running' = FALSE
    /\ tasks' = [t \in DOMAIN tasks |-> StopTask(tasks[t])]
    /\ UNCHANGED <<max_concurrent, started, gen, queue, unfinished, sem, user_tasks>>

\* ---------------------------------------------------- AudioWorker.enqueue
qsize == Len(queue[gen])

\* the capacity test written with > instead of >=
QueueFull_OffByOne == qsize > QueueCap

\* if self.queue.qsize() >= 50
QueueFull == qsize >= QueueCap

\* an index that keeps only the newest task of a user
TrackUser_Overwrite(ut, user_id, task_id) ==
    IF user_id \in DOMAIN ut
    THEN [ut EXCEPT ![user_id] = <<task_id>>]
    ELSE ut @@ (user_id :> <<task_id>>)

\* self.user_tasks[user_id].append(task_id), after the list has been created
TrackUser(ut, user_id, task_id) ==
    IF user_id \in DOMAIN ut
    THEN [ut EXCEPT ![user_id] = Append(@, task_id)]
    ELSE ut @@ (user_id :> <<task_id>>)

enqueue(task_id, user_id, callback) ==
    IF ~running
    THEN ret' = "False" /\ UNCHANGED <<workerState, files>>
    ELSE IF QueueFull
    THEN ret' = "False" /\ UNCHANGED <<workerState, files>>
    ELSE /\ tasks' = tasks @@ (task_id :> AudioTask(user_id, callback))
         /\ user_tasks' = TrackUser(user_tasks, user_id, task_id)
         /\ queue' = [queue EXCEPT ![gen] = Append(@, task_id)]
         /\ unfinished' = [unfinished EXCEPT ![gen] = @ + 1]
         /\ files' = files \cup {task_id}
         /\ ret' = "True"
         /\ UNCHANGED <<running, max_concurrent, started, gen, sem>>

\* ------------------------------------------ AudioWorker.cleanup_old_tasks
\* cutoff_time = time.time() - older_than_hours * 3600; the clock counts hours
cutoff_time(older_than_hours) == now - older_than_hours

\* task_ids_to_remove
task_ids_to_remove(older_than_hours) ==
    {t \in DOMAIN tasks :
        tasks[t].end_time # 0 /\ tasks[t].end_time < cutoff_time(older_than_hours)}

cleanup_old_tasks(older_than_hours) ==
    LET gone == task_ids_to_remove(older_than_hours) IN
    /\ tasks' = [t \in DOMAIN tasks \ gone |-> tasks[t]]
    /\ user_tasks' = [u \in DOMAIN user_tasks |->
                         SelectSeq(user_tasks[u],
                                   LAMBDA x : ~(x \in gone /\ tasks[x].user_id = u))]
    /\ UNCHANGED <<running, max_concurrent, started, gen, queue, unfinished, sem>>

\* ----------------------------------------- coroutines of the event loop
\* handler.init_worker: await worker.start(); create_task(worker.process_worker(engine))
InitWorker ==
    /\ pc = "unspawned"
    /\ start
    /\ pc' = "spawned"
    /\ UNCHANGED <<extVars, cacheVars, ended, nextid, ret, now, files, cur, dq, ds, success, exists, cb_exc, cbcount>>

Start ==
    /\ Yielded
    /\ start
    /\ UNCHANGED <<extVars, cacheVars, ended, nextid, ret, now, files, loopState>>

Stop ==
    /\ Yielded
    /\ stop
    /\ ended' = [t \in TaskIds |->
                    IF t \in DOMAIN tasks /\ tasks[t].status \in Active THEN now ELSE ended[t]]
    /\ UNCHANGED <<extVars, cacheVars, nextid, ret, now, files, loopState>>

Enqueue(user_id, callback) ==
    /\ Yielded
    /\ nextid <= MaxTasks
    /\ enqueue(nextid, user_id, callback)
    /\ nextid' = nextid + 1
    /\ UNCHANGED <<extVars, cacheVars, ended, now, loopState>>

CleanupOldTasks(older_than_hours) ==
    /\ Yielded
    /\ cleanup_old_tasks(older_than_hours)
    /\ UNCHANGED <<extVars, cacheVars, ended, nextid, ret, now, files, loopState>>

Tick ==
    /\ now < MaxTime
    /\ now' = now + 1
    /\ UNCHANGED <<extVars, cacheVars, ended, workerState, nextid, ret, files, loopState>>

\* --------------------------------------------- AudioWorker.process_worker
\* while self.running: ... self.queue.get() is called on the queue of that moment
PW_While ==
    /\ pc \in {"spawned", "top"}
    /\ IF running
       THEN pc' = "get" /\ dq' = gen
       ELSE pc' = "exited" /\ dq' = dq
    /\ UNCHANGED <<extVars, cacheVars, ended, workerState, nextid, ret, now, files, cur, ds, success, exists, cb_exc, cbcount>>

\* a queue that hands out the newest item first
Dequeue_Lifo(q) == [item |-> q[Len(q)], rest |-> SubSeq(q, 1, Len(q) - 1)]

\* asyncio.Queue.get: the oldest item
Dequeue(q) == [item |-> Head(q), rest |-> Tail(q)]

\* task = await wait_for(self.queue.get()); async with self.semaphore is entered
PW_Get ==
    /\ pc = "get"
    /\ queue[dq] # <<>>
    /\ cur' = Dequeue(queue[dq]).item
    /\ queue' = [queue EXCEPT ![dq] = Dequeue(queue[dq]).rest]
    /\ ds' = gen
    /\ pc' = "acquire"
    /\ UNCHANGED <<extVars, cacheVars, ended, running, max_concurrent, started, gen, unfinished, sem, tasks, user_tasks,
                   nextid, ret, now, files, dq, success, exists, cb_exc, cbcount>>

\* except asyncio.TimeoutError: continue
PW_Timeout ==
    /\ pc = "get"
    /\ queue[dq] = <<>>
    /\ pc' = "top"
    /\ UNCHANGED <<extVars, cacheVars, ended, workerState, nextid, ret, now, files, cur, dq, ds, success, exists, cb_exc, cbcount>>

Processing(task) ==
    [task EXCEPT !.status = "processing", !.progress = 10, !.start_time = now]

\* the semaphore is acquired; status, progress and start_time are set
PW_Acquire ==
    /\ pc = "acquire"
    /\ sem[ds] > 0
    /\ sem' = [sem EXCEPT ![ds] = @ - 1]
    /\ tasks' = [tasks EXCEPT ![cur] = Processing(@)]
    /\ ended' = [ended EXCEPT ![cur] = 0]
    /\ pc' = "engine"
    /\ UNCHANGED <<extVars, cacheVars, running, max_concurrent, started, gen, queue, unfinished, user_tasks,
                   nextid, ret, now, files, cur, dq, ds, success, exists, cb_exc, cbcount>>

Completed(task) ==
    LET done == [task EXCEPT !.status = "completed", !.progress = 100, !.end_time = now]
    IN  [done EXCEPT !.result = <<[output_size |-> "st_size", duration |-> get_duration(done)]>>]

Failed(task) ==
    [task EXCEPT !.status = "failed", !.progress = 95, !.error = ProcessingFailed, !.end_time = now]

\* an except branch that records the error but forgets the status
Raised_KeepsProcessing(task) ==
    [task EXCEPT !.progress = 25, !.error = StrE, !.end_time = now]

Raised(task) ==
    [task EXCEPT !.status = "failed", !.progress = 25, !.error = StrE, !.end_time = now]

\* the test written with `or`
Succeeded_Or(s, e) == s = "true" \/ e

\* if success and task.output_path.exists()
Succeeded(s, e) == s = "true" /\ e

\* the try/except around engine.process_audio_file: s is how the call ended,
\* e whether output_path exists afterwards
AfterEngine(task, s, e) ==
    IF s = "raised" THEN Raised(task)
    ELSE IF Succeeded(s, e) THEN Completed(task)
    ELSE Failed(task)

PW_Engine(s, e) ==
    /\ pc = "engine"
    /\ tasks' = [tasks EXCEPT ![cur] = AfterEngine(@, s, e)]
    /\ ended' = [ended EXCEPT ![cur] = now]
    /\ success' = s
    /\ exists' = e
    /\ pc' = "finally"
    /\ UNCHANGED <<extVars, cacheVars, running, max_concurrent, started, gen, queue, unfinished, sem, user_tasks,
                   nextid, ret, now, files, cur, dq, ds, cb_exc, cbcount>>

\* finally: if task.callback: the callback is called (or awaited); how: it returns,
\* raises, or (a coroutine function) suspends
PW_Callback(how) ==
    /\ pc = "finally"
    /\ IF tasks[cur].callback
       THEN /\ cbcount' = [cbcount EXCEPT ![cur] = @ + 1]
            /\ cb_exc' = (how = "raise")
            /\ pc' = IF how = "await" THEN "cbawait" ELSE "taskdone"
       ELSE /\ how = "return"
            /\ cb_exc' = FALSE
            /\ pc' = "taskdone"
            /\ UNCHANGED cbcount
    /\ UNCHANGED <<extVars, cacheVars, ended, workerState, nextid, ret, now, files, cur, dq, ds, success, exists>>

\* the awaited callback resumes and returns or raises (the except logs it)
PW_CallbackResume(how) ==
    /\ pc = "cbawait"
    /\ cb_exc' = (how = "raise")
    /\ pc' = "taskdone"
    /\ UNCHANGED <<extVars, cacheVars, ended, workerState, nextid, ret, now, files, cur, dq, ds, success, exists, cbcount>>

\* a release that is skipped when the callback raised
Release_Leak(s) == IF cb_exc THEN s ELSE [s EXCEPT ![ds] = @ + 1]

\* leaving `async with self.semaphore`, normally or by an exception
Release(s) == [s EXCEPT ![ds] = @ + 1]

\* self.queue.task_done() on the queue of this moment (ValueError when it has no
\* unfinished task: the except of the loop logs it and sleeps), then the cleanup of
\* the input file; the semaphore is released on both paths
PW_TaskDone ==
    /\ pc = "taskdone"
    /\ IF unfinished[gen] > 0
       THEN /\ unfinished' = [unfinished EXCEPT ![gen] = @ - 1]
            /\ files' = files \ {cur}
            /\ pc' = "top"
       ELSE /\ UNCHANGED <<unfinished, files>>
            /\ pc' = "sleep"
    /\ sem' = Release(sem)
    /\ cur' = 0
    /\ success' = None
    /\ exists' = FALSE
    /\ UNCHANGED <<extVars, cacheVars, ended, running, max_concurrent, started, gen, queue, tasks, user_tasks,
                   nextid, ret, now, dq, ds, cb_exc, cbcount>>

\* await asyncio.sleep(1)
PW_Sleep ==
    /\ pc = "sleep"
    /\ pc' = "top"
    /\ UNCHANGED <<extVars, cacheVars, ended, workerState, nextid, ret, now, files, cur, dq, ds, success, exists, cb_exc, cbcount>>

process_worker ==
    \/ PW_While
    \/ PW_Get
    \/ PW_Timeout
    \/ PW_Acquire
    \/ \E s \in {"true", "false", "raised"}, e \in BOOLEAN : PW_Engine(s, e)
    \/ \E how \in {"return", "raise", "await"} : PW_Callback(how)
    \/ \E how \in {"return", "raise"} : PW_CallbackResume(how)
    \/ PW_TaskDone
    \/ PW_Sleep

Next ==
    \/ InitWorker
    \/ Start
    \/ Stop
    \/ \E user_id \in Users, callback \in BOOLEAN : Enqueue(user_id, callback)
    \/ \E older_than_hours \in 0..MaxHours : CleanupOldTasks(older_than_hours)
    \/ Tick
    \/ process_worker

Spec == Init /\ [][Next]_vars

\* the event loop keeps running the dispatcher, and engine calls and callbacks return
FairSpec == Spec /\ WF_vars(process_worker)

\* ------------------------------------ the worker called for several users
\* number of user ids that enqueue tasks
NumIndexUsers == 2

IndexUsers == 1..NumIndexUsers

\* get_user_tasks: the ids of the tasks it returns, in order
get_user_tasks(user_id) ==
    IF user_id \notin DOMAIN user_tasks THEN <<>>
    ELSE SelectSeq(user_tasks[user_id], LAMBDA task_id : task_id \in DOMAIN tasks)

\* enqueue, the dispatcher and cleanup_old_tasks on a worker that is not stopped (the
\* queue is never replaced, so task_done() does not raise and the loop does not sleep)
IndexNext ==
    \/ InitWorker
    \/ \E user_id \in IndexUsers, callback \in BOOLEAN : Enqueue(user_id, callback)
    \/ \E older_than_hours \in 0..MaxHours : CleanupOldTasks(older_than_hours)
    \/ Tick
    \/ PW_While
    \/ PW_Get
    \/ PW_Timeout
    \/ PW_Acquire
    \/ \E s \in {"true", "false", "raised"}, e \in BOOLEAN : PW_Engine(s, e)
    \/ \E how \in {"return", "raise", "await"} : PW_Callback(how)
    \/ \E how \in {"return", "raise"} : PW_CallbackResume(how)
    \/ PW_TaskDone

IndexSpec == Init /\ [][IndexNext]_vars

\* ============================================================ AudioCache
\* everything of the worker but the clock
workerVars == <<workerState, nextid, ret, files, loopState, ended>>

\* metadata.get("created_at", 0); 0 as well when the file does not parse
CreatedAt(m) == IF m.json THEN m.created_at ELSE 0

\* time.time() - created_at > self.ttl
Expired(created, t) == t - created > CACHE_TTL

\* a delete that leaves the metadata file behind
delete_KeepsMeta(fs, cache_path) ==
    [payload |-> [fs.payload EXCEPT ![cache_path] = NoPayload],
     meta    |-> fs.meta]

\* a delete that empties the preset directory of the entry
delete_Dir(fs, cache_path) ==
    [payload |-> [cp \in Paths |-> IF cp.dir = cache_path.dir THEN NoPayload ELSE fs.payload[cp]],
     meta    |-> [cp \in Paths |-> IF cp.dir = cache_path.dir THEN NoMeta ELSE fs.meta[cp]]]

\* AudioCache.delete: the payload and its metadata file are unlinked
delete(fs, cache_path) ==
    [payload |-> [fs.payload EXCEPT ![cache_path] = NoPayload],
     meta    |-> [fs.meta EXCEPT ![cache_path] = NoMeta]]

\* AudioCache.get
get(file_data, preset_id) ==
    LET cache_path == PathOf(file_data, preset_id) IN
    IF ~CACHE_ENABLED
    THEN got' = <<>> /\ UNCHANGED <<payload, meta, log>>
    ELSE IF payload[cache_path].size = 0
    THEN got' = <<>> /\ log' = "Cache miss" /\ UNCHANGED <<payload, meta>>
    ELSE IF ~meta[cache_path].file
    THEN got' = <<>> /\ log' = "Cache metadata missing" /\ UNCHANGED <<payload, meta>>
    ELSE IF ~meta[cache_path].json
    THEN got' = <<>> /\ log' = "Error reading cache" /\ UNCHANGED <<payload, meta>>
    ELSE IF Expired(meta[cache_path].created_at, now)
    THEN LET d == delete([payload |-> payload, meta |-> meta], cache_path) IN
         /\ payload' = d.payload
         /\ meta' = d.meta
         /\ got' = <<>>
         /\ log' = "Cache expired"
    ELSE got' = <<cache_path>> /\ log' = "Cache hit" /\ UNCHANGED <<payload, meta>>

CacheGet(file_data, preset_id) ==
    /\ cpc = "idle"
    /\ get(file_data, preset_id)
    /\ entries' = <<>>
    /\ UNCHANGED <<processed, last_cleanup, cpc, call, passes, now, workerVars, extVars>>

\* AudioCache.set up to the metadata write: the payload links to output_path (when it
\* exists), the metadata file is written with created_at.  output_path is the file the
\* engine has written for this task under cache_dir/processed.
set_begin(file_data, preset_id, out_exists) ==
    LET cache_path == PathOf(file_data, preset_id) IN
    /\ processed' = IF out_exists THEN processed + st_size(file_data, preset_id) ELSE processed
    /\ processed' <= MaxProcessed
    /\ payload' = IF out_exists
                  THEN [payload EXCEPT ![cache_path] =
                            [size   |-> st_size(file_data, preset_id),
                             input  |-> file_data,
                             preset |-> preset_id]]
                  ELSE payload
    /\ meta' = [meta EXCEPT ![cache_path] = [file |-> TRUE, json |-> TRUE, created_at |-> now]]
    /\ cpc' = "cleanup"
    /\ call' = <<[cache_path |-> cache_path, out_exists |-> out_exists]>>
    /\ entries' = <<>>

CacheSet(file_data, preset_id, out_exists) ==
    /\ cpc = "idle"
    /\ CACHE_ENABLED
    /\ set_begin(file_data, preset_id, out_exists)
    /\ UNCHANGED <<last_cleanup, got, log, passes, now, workerVars, extVars>>

RECURSIVE SumSizes(_, _)
SumSizes(pl, S) ==
    IF S = {} THEN 0
    ELSE LET cp == CHOOSE x \in S : TRUE IN pl[cp].size + SumSizes(pl, S \ {cp})

\* the payloads of the cache
stored_size(pl) == SumSizes(pl, Paths)

\* rglob walks all of cache_dir: the payloads (stat follows a link to the output file it
\* names) and the output files themselves, which handler.py puts in cache_dir/processed
total_size(pl) == stored_size(pl) + processed

\* the (cache_file, metadata_file) pairs the directory scan collects
Listed == {cp \in Paths : payload[cp].size > 0 /\ meta[cp].file}

\* entries_with_time after sort(key=created_at): every order of the listed paths that
\* is sorted by created_at (the order of equal keys is that of the directory scan)
SortedOrders(S) ==
    {sq \in [1..Cardinality(S) -> S] :
        /\ \A i, j \in 1..Cardinality(S) : i # j => sq[i] # sq[j]
        /\ \A i, j \in 1..Cardinality(S) :
               i < j => CreatedAt(meta[sq[i]]) <= CreatedAt(meta[sq[j]])}

\* a throttle that lets the body run at any time
Throttled_Never == FALSE

\* if now - self._last_cleanup < self.check_interval: return
Throttled == now - last_cleanup < CACHE_CHECK_INTERVAL

CleanupThrottled ==
    /\ cpc = "cleanup"
    /\ Throttled
    /\ cpc' = "idle"
    /\ call' = <<>>
    /\ UNCHANGED <<processed, payload, meta, last_cleanup, got, log, entries, passes, now, workerVars, extVars>>

\* an expiry pass that skips entries whose metadata does not parse
ExpiredListed_SkipsUnreadable ==
    {cp \in Listed : meta[cp].json /\ Expired(CreatedAt(meta[cp]), now)}

\* the listed entries the expiry loop deletes
ExpiredListed == {cp \in Listed : Expired(CreatedAt(meta[cp]), now)}

\* _cleanup_if_needed, first part: _last_cleanup is set, the entries are listed and
\* sorted, the expired ones are deleted
CleanupExpire ==
    /\ cpc = "cleanup"
    /\ ~Throttled
    /\ last_cleanup' = now
    /\ passes' = passes + 1
    /\ \E sq \in SortedOrders(Listed) :
           entries' = [i \in 1..Len(sq) |->
                          [path |-> sq[i], created_at |-> CreatedAt(meta[sq[i]])]]
    /\ payload' = [cp \in Paths |-> IF cp \in ExpiredListed THEN NoPayload ELSE payload[cp]]
    /\ meta' = [cp \in Paths |-> IF cp \in ExpiredListed THEN NoMeta ELSE meta[cp]]
    /\ cpc' = "evict"
    /\ UNCHANGED <<processed, got, log, call, now, workerVars, extVars>>

\* an eviction that spares the oldest entries instead of the newest
Victims_Newest(sq) == SubSeq(sq, KeepFloor + 1, Len(sq))

\* an eviction that keeps no floor
Victims_NoFloor(sq) == sq

\* entries_with_time[:-5]
Victims(sq) == SubSeq(sq, 1, Len(sq) - KeepFloor)

\* if total_size < self.max_size * 0.8: break
Enough(total) == 5 * total < 4 * MAX_CACHE_SIZE

\* the eviction loop: delete, recompute the total, break when it is low enough
RECURSIVE EvictLoop(_, _)
EvictLoop(victims, fs) ==
    IF victims = <<>> THEN fs
    ELSE LET d == delete(fs, Head(victims).path) IN
         IF Enough(total_size(d.payload)) THEN d ELSE EvictLoop(Tail(victims), d)

\* if total_size > self.max_size
OverCap(total) == total > MAX_CACHE_SIZE

\* _cleanup_if_needed, second part: the size eviction; set() returns
CleanupEvict ==
    LET fs == [payload |-> payload, meta |-> meta]
        after == IF OverCap(total_size(payload)) THEN EvictLoop(Victims(entries), fs) ELSE fs
    IN  /\ cpc = "evict"
        /\ payload' = after.payload
        /\ meta' = after.meta
        /\ cpc' = "idle"
        /\ call' = <<>>
        /\ UNCHANGED <<processed, last_cleanup, got, log, entries, passes, now, workerVars, extVars>>

\* a metadata file that no longer parses (json.loads raises)
Corrupt(cache_path) ==
    /\ cpc = "idle"
    /\ meta[cache_path].file
    /\ meta[cache_path].json
    /\ meta' = [meta EXCEPT ![cache_path] = [file |-> TRUE, json |-> FALSE, created_at |-> 0]]
    /\ entries' = <<>>
    /\ UNCHANGED <<processed, payload, last_cleanup, got, log, cpc, call, passes, now, workerVars, extVars>>

\* time passes (a tick is long: none passes within a set() or a get() call)
Elapse ==
    /\ cpc = "idle"
    /\ gpc = "idle"
    /\ now < Epoch + CacheClockSpan
    /\ now' = now + 1
    /\ entries' = <<>>
    /\ UNCHANGED <<processed, payload, meta, last_cleanup, got, log, cpc, call, passes, workerVars, extVars>>

CacheInit ==
    /\ now = Epoch
    /\ WorkerConstructed
    /\ CacheConstructed
    /\ ExtIdle

CacheNext ==
    \/ \E b \in Inputs, p \in PresetIds : CacheGet(b, p)
    \/ \E b \in Inputs, p \in PresetIds, out_exists \in OutputExists :
           CacheSet(b, p, out_exists)
    \/ CleanupThrottled
    \/ CleanupExpire
    \/ CleanupEvict
    \/ \E cp \in Paths : Corrupt(cp)
    \/ Elapse

CacheSpec == CacheInit /\ [][CacheNext]_vars

\* =================================================== AudioCache.delete
\* what a payload file and a metadata file of cache path cp can be when delete() is
\* called: absent, written by set(), or (the metadata) unreadable
PayloadStates(cp) ==
    {NoPayload} \cup {[size |-> st_size(b, p), input |-> b, preset |-> p] :
                          <<b, p>> \in {x \in Inputs \X PresetIds : PathOf(x[1], x[2]) = cp}}

MetaStates == {NoMeta,
               [file |-> TRUE, json |-> TRUE, created_at |-> Epoch],
               [file |-> TRUE, json |-> FALSE, created_at |-> 0]}

\* a direct call of delete(cache_path); without an error of unlink it returns True
DeleteCall(cache_path) ==
    LET d == delete([payload |-> payload, meta |-> meta], cache_path) IN
    /\ Len(deleted) < MaxDeletes
    /\ payload' = d.payload
    /\ meta' = d.meta
    /\ deleted' = Append(deleted, cache_path)
    /\ dret' = "True"
    /\ UNCHANGED <<last_cleanup, got, log, cpc, call, entries, passes, processed, now,
                   workerVars, handlerVars, raceVars, engineVars>>

DeleteInit ==
    /\ now = Epoch
    /\ WorkerConstructed
    /\ payload \in [Paths -> UNION {PayloadStates(cp) : cp \in Paths}]
    /\ \A cp \in Paths : payload[cp] \in PayloadStates(cp)
    /\ meta \in [Paths -> MetaStates]
    /\ last_cleanup = now
    /\ got = <<>>
    /\ log = ""
    /\ cpc = "idle"
    /\ call = <<>>
    /\ entries = <<>>
    /\ passes = 0
    /\ processed = 0
    /\ ExtIdle

DeleteNext == \E cp \in Paths : DeleteCall(cp)

DeleteSpec == DeleteInit /\ [][DeleteNext]_vars

\* ================================================= SpatialAudioHandler
\* The handler coroutines run while the dispatcher is suspended (Yielded).  Between the
\* admission check and the cache lookup a call awaits the download, the validation and
\* the status message; from the return of cache.get to the return of worker.enqueue it
\* does not suspend (the queue is unbounded, so put() returns at once).  A cache.get or
\* cache.set call is taken as one step with respect to the other coroutines, but for
\* the cleanup pass of set.

\* the classes of the exceptions the cache calls can raise
OSError == "OSError"
JSONDecodeError == "JSONDecodeError"

\* an except clause that names OSError only
Caught_OSErrorOnly(e) == e = OSError

\* except Exception (cache.py:91, cache.py:146)
Caught(e) == e \in {OSError, JSONDecodeError}

\* _check_rate_limit: the requests of the last hour are kept, then the two limits are
\* tested, and an admitted request is recorded
\* the hourly limit tested with > instead of >=
check_rate_limit_OffByOne(user_id) ==
    LET kept == SelectSeq(user_requests[user_id], LAMBDA req_time : req_time > now - Hour)
        ok   == Len(kept) <= HourlyLimit /\ user_processing[user_id] < USER_MAX_CONCURRENT
    IN  [ok |-> ok,
         user_requests |-> [user_requests EXCEPT ![user_id] =
                                IF ok THEN Append(kept, now) ELSE kept]]

check_rate_limit(user_id) ==
    LET kept == SelectSeq(user_requests[user_id], LAMBDA req_time : req_time > now - Hour)
        ok   == Len(kept) < HourlyLimit /\ user_processing[user_id] < USER_MAX_CONCURRENT
    IN  [ok |-> ok,
         user_requests |-> [user_requests EXCEPT ![user_id] =
                                IF ok THEN Append(kept, now) ELSE kept]]

\* _process_spatialize up to the await of _validate_audio (or of the rejection reply)
H_Admit(r, user_id, file_data, preset_name) ==
    LET c == check_rate_limit(user_id) IN
    /\ Yielded
    /\ rpc[r] = "new"
    /\ r > 1 => rpc[r - 1] # "new"
    /\ user_requests' = c.user_requests
    /\ req' = [req EXCEPT ![r] = [user_id |-> user_id, file_data |-> file_data,
                                  preset_name |-> preset_name]]
    /\ rpc' = [rpc EXCEPT ![r] = IF c.ok THEN "admitted" ELSE "done"]
    /\ outcome' = [outcome EXCEPT ![r] = IF c.ok THEN None ELSE "rate_limited"]
    /\ UNCHANGED <<user_processing, closure, hcb, sret, sent, escaped, downloads, sideVars,
                   cacheVars, workerVars, now>>

\* what the body of get() raises: io is the error of opening or reading the metadata
\* file, a metadata file that does not parse makes json.loads raise
GetRaises(file_data, preset_id, io) ==
    LET cache_path == PathOf(file_data, preset_id) IN
    IF payload[cache_path].size = 0 \/ ~meta[cache_path].file THEN None
    ELSE IF io # None THEN io
    ELSE IF ~meta[cache_path].json THEN JSONDecodeError
    ELSE None

max0(n) == IF n > 0 THEN n ELSE 0

\* ------------------------------------------------------- _validate_audio
\* what a message brings: whether it carries a file, the size Telegram reports, whether
\* the download gives a path, and what engine.get_audio_info finds in the file
Message(file_size, fetched, sr, duration) ==
    [file |-> TRUE, file_size |-> file_size, fetched |-> fetched, sr |-> sr,
     duration |-> duration]

NoFileMessage ==
    [file |-> FALSE, file_size |-> 0, fetched |-> FALSE, sr |-> 0, duration |-> 0]

\* a file that passes and one that is too short
OkMessage == Message(MAX_FILE_SIZE, TRUE, DEFAULT_SAMPLE_RATE, MIN_DURATION)
ShortMessage == Message(MAX_FILE_SIZE, TRUE, DEFAULT_SAMPLE_RATE, MIN_DURATION - 1)

HandlerMessages == {OkMessage, ShortMessage}

\* the messages on both sides of every test of _validate_audio; get_audio_info gives
\* (0, 0, 0.0) for a file it cannot read
ValidateMessages ==
    {NoFileMessage, Message(MAX_FILE_SIZE, FALSE, 0, 0)}
        \cup {Message(size, TRUE, 0, 0) : size \in {MAX_FILE_SIZE, MAX_FILE_SIZE + 1}}
        \cup {Message(size, TRUE, DEFAULT_SAMPLE_RATE, d) :
                 size \in {MAX_FILE_SIZE, MAX_FILE_SIZE + 1},
                 d \in {MIN_DURATION - 1, MIN_DURATION, MAX_DURATION, MAX_DURATION + 1}}

\* the tests of _validate_audio in their order: "ok" stands for the returned tuple,
\* every other value for the reply sent before `return None`
validate_audio(msg) ==
    IF ~msg.file THEN "no_file"
    ELSE IF msg.file_size > MAX_FILE_SIZE THEN "too_large"
    ELSE IF ~msg.fetched THEN "no_download"
    ELSE IF msg.sr = 0 THEN "invalid_format"
    ELSE IF msg.duration > MAX_DURATION THEN "too_long"
    ELSE IF msg.duration < MIN_DURATION THEN "too_short"
    ELSE "ok"

\* the handler and the cache name a preset by the first letter of its key
InPresets(preset_name) == \E key \in DOMAIN PRESETS : SubSeq(key, 1, 1) = preset_name

\* why _process_spatialize turns an admitted request away before the status message
Rejection(msg, preset_name) ==
    IF validate_audio(msg) # "ok" THEN validate_audio(msg)
    ELSE IF ~InPresets(preset_name) THEN "unknown_preset"
    ELSE "ok"

Rejections == {"no_file", "too_large", "no_download", "invalid_format", "too_long",
               "too_short", "unknown_preset"}

\* message.download has written the input file when the request is turned away
Downloaded(reason) == reason \notin {"no_file", "too_large", "no_download"}

\* a handler that replies to an unknown preset without removing the input file
Unlinked_NotForPreset(reason) == reason \in {"invalid_format", "too_long", "too_short"}

\* file_path.unlink / input_path.unlink before the reply (handler.py:124, 130, 139, 184)
Unlinked(reason) == reason \in {"invalid_format", "too_long", "too_short", "unknown_preset"}

\* _process_spatialize from the await of _validate_audio to its end: the validation of
\* the message and of the preset name, the cache lookup, then the reply from the cache,
\* or the counter, the callback and worker.enqueue.  The input file of a call that gets
\* past the validation is unlinked at the end of the call (handler.py:243, 304, 312) or
\* belongs to the task.
H_Submit(r, msg, io) ==
    LET user_id     == req[r].user_id
        file_data   == req[r].file_data
        preset_name == req[r].preset_name
        e           == GetRaises(file_data, preset_name, io)
        reason      == Rejection(msg, preset_name)
    IN
    /\ Yielded
    /\ cpc = "idle"
    /\ rpc[r] = "admitted"
    /\ rpc' = [rpc EXCEPT ![r] = "done"]
    /\ downloads' = IF reason # "ok" /\ Downloaded(reason) /\ ~Unlinked(reason)
                    THEN downloads \cup {r}
                    ELSE downloads
    /\ IF reason # "ok"
       THEN /\ outcome' = [outcome EXCEPT ![r] = reason]
            /\ UNCHANGED <<cacheVars, workerVars, user_processing, closure, escaped>>
       ELSE IF e # None /\ ~Caught(e)
       THEN \* the exception leaves get(): except Exception of handler.py:309
            /\ escaped' = TRUE
            /\ outcome' = [outcome EXCEPT ![r] = "error"]
            /\ UNCHANGED <<cacheVars, workerVars, user_processing, closure>>
       ELSE /\ IF e = OSError
               THEN got' = <<>> /\ log' = "Error reading cache" /\ UNCHANGED <<payload, meta>>
               ELSE get(file_data, preset_name)
            /\ entries' = <<>>
            /\ UNCHANGED <<last_cleanup, cpc, call, passes, processed, escaped>>
            /\ IF got' # <<>>
               THEN /\ outcome' = [outcome EXCEPT ![r] = "cached"]
                    /\ UNCHANGED <<workerVars, user_processing, closure>>
               ELSE /\ nextid <= MaxTasks
                    /\ enqueue(nextid, user_id, TRUE)
                    /\ nextid' = nextid + 1
                    /\ closure' = [closure EXCEPT ![nextid] = r]
                    /\ user_processing' =
                           [user_processing EXCEPT ![user_id] =
                                IF ret' = "True" THEN @ + 1 ELSE max0((@ + 1) - 1)]
                    /\ outcome' = [outcome EXCEPT ![r] =
                                      IF ret' = "True" THEN "enqueued" ELSE "queue_full"]
                    /\ UNCHANGED <<loopState, ended>>
    /\ UNCHANGED <<user_requests, req, hcb, sret, sent, sideVars, now>>

\* task_callback up to the await of status_msg.edit_text
H_Callback ==
    /\ pc = "finally"
    /\ user_processing' = [user_processing EXCEPT ![tasks[cur].user_id] = max0(@ - 1)]
    /\ cbcount' = [cbcount EXCEPT ![cur] = @ + 1]
    /\ pc' = "cbawait"
    /\ hcb' = "edit"
    /\ UNCHANGED <<user_requests, rpc, req, outcome, closure, sret, sent, escaped, downloads,
                   sideVars, cacheVars, workerState, nextid, ret, now, files, cur, dq, ds, success,
                   exists, cb_exc, ended>>

\* finally: input_path.unlink(missing_ok=True); the callback returns to the dispatcher
cb_return ==
    /\ files' = files \ {cur}
    /\ pc' = "taskdone"
    /\ cb_exc' = FALSE
    /\ hcb' = None

\* the files a set() call leaves when its body raises OSError: at the copy (the old
\* payload is unlinked, no new one is made) or at the write of the metadata (the file
\* is truncated)
set_failed(file_data, preset_id, fault) ==
    LET cache_path == PathOf(file_data, preset_id) IN
    /\ processed' = processed + st_size(file_data, preset_id)
    /\ processed' <= MaxProcessed
    /\ payload' = [payload EXCEPT ![cache_path] =
                       IF fault = "copy" THEN NoPayload
                       ELSE [size   |-> st_size(file_data, preset_id),
                             input  |-> file_data,
                             preset |-> preset_id]]
    /\ meta' = IF fault = "copy" THEN meta
               ELSE [meta EXCEPT ![cache_path] =
                         [file |-> TRUE, json |-> FALSE, created_at |-> 0]]
    /\ entries' = <<>>
    /\ UNCHANGED <<cpc, call>>

\* task_callback from the return of status_msg.edit_text (ok: it did not raise) to the
\* await inside cache.set, or to the end of the callback
H_CbEdit(ok, fault) ==
    LET file_data   == req[closure[cur]].file_data
        preset_name == req[closure[cur]].preset_name
    IN
    /\ pc = "cbawait"
    /\ hcb = "edit"
    /\ IF cur \in DOMAIN tasks /\ tasks[cur].status = "completed" /\ ok
       THEN IF fault = None
            THEN /\ set_begin(file_data, preset_name, TRUE)
                 /\ hcb' = "set"
                 /\ UNCHANGED <<files, pc, cb_exc, sret, escaped>>
            ELSE /\ set_failed(file_data, preset_name, fault)
                 /\ IF Caught(OSError)
                    THEN /\ sret' = "False"
                         /\ hcb' = "send"
                         /\ UNCHANGED <<files, pc, cb_exc, escaped>>
                    ELSE \* the exception leaves set(): except Exception of handler.py:284
                         /\ escaped' = TRUE
                         /\ cb_return
                         /\ UNCHANGED sret
       ELSE \* edit_text raised, or the task failed; the output file of a completed
            \* task lies in cache_dir/processed all the same
            /\ cb_return
            /\ processed' = IF cur \in DOMAIN tasks /\ tasks[cur].status = "completed"
                            THEN processed + st_size(file_data, preset_name)
                            ELSE processed
            /\ UNCHANGED <<payload, meta, cpc, call, entries, sret, escaped>>
    /\ UNCHANGED <<user_requests, user_processing, rpc, req, outcome, closure, sent,
                   downloads, sideVars, last_cleanup, got, log, passes, workerState, nextid, ret, now,
                   cur, dq, ds, success, exists, cbcount, ended>>

\* task_callback from the return of cache.set to its end: reply_audio(task.output_path)
H_CbSend ==
    /\ pc = "cbawait"
    /\ hcb \in {"set", "send"}
    /\ cpc = "idle"
    /\ sret' = IF hcb = "set" THEN "True" ELSE sret
    /\ sent' = sent \cup {cur}
    /\ cb_return
    /\ UNCHANGED <<user_requests, user_processing, rpc, req, outcome, closure, escaped,
                   downloads, sideVars, cacheVars, workerState, nextid, ret, now, cur, dq, ds, success,
                   exists, cbcount, ended>>

HandlerInit ==
    /\ now = Epoch
    /\ WorkerConstructed
    /\ CacheConstructed
    /\ ExtIdle

HandlerNext ==
    \/ InitWorker
    \/ \E r \in Requests, user_id \in Users, file_data \in HandlerInputs,
          preset_name \in HandlerPresets : H_Admit(r, user_id, file_data, preset_name)
    \/ \E r \in Requests, msg \in HandlerMessages, io \in {None, OSError} :
          H_Submit(r, msg, io)
    \/ PW_While
    \/ PW_Get
    \/ PW_Timeout
    \/ PW_Acquire
    \/ \E s \in {"true", "false", "raised"}, e \in BOOLEAN :
          (s # "true" => ~e) /\ PW_Engine(s, e)
    \/ H_Callback
    \/ \E ok \in BOOLEAN, fault \in {None, "copy", "meta"} : H_CbEdit(ok, fault)
    \/ H_CbSend
    \/ PW_TaskDone
    \/ CleanupThrottled
    \/ CleanupExpire
    \/ CleanupEvict
    \/ Elapse

HandlerSpec == HandlerInit /\ [][HandlerNext]_vars

\* ------------------------------------ the handler on a worker that is stopped
\* the handler with valid requests, the dispatcher and the callbacks, and calls of
\* worker.stop() and worker.start() between them; the cache files are read and written
\* without errors, and no time passes, so that the cleanup of every set() is throttled
LifecycleNext ==
    \/ InitWorker
    \/ Start
    \/ Stop
    \/ \E r \in Requests, user_id \in Users, file_data \in HandlerInputs,
          preset_name \in HandlerPresets : H_Admit(r, user_id, file_data, preset_name)
    \/ \E r \in Requests : H_Submit(r, OkMessage, None)
    \/ PW_While
    \/ PW_Get
    \/ PW_Timeout
    \/ PW_Acquire
    \/ \E s \in {"true", "false"} : PW_Engine(s, s = "true")
    \/ H_Callback
    \/ \E ok \in BOOLEAN : H_CbEdit(ok, None)
    \/ H_CbSend
    \/ PW_TaskDone
    \/ PW_Sleep
    \/ CleanupThrottled

LifecycleSpec == HandlerInit /\ [][LifecycleNext]_vars

\* ------------------------------------- requests that fail the validation
\* a known and an unknown preset name
ValidatePresets == {<<"c">>, <<"x">>}

\* the handler with every kind of message and preset name, the dispatcher and the
\* callbacks; the cache files are read and written without errors
ValidateNext ==
    \/ InitWorker
    \/ \E r \in Requests, user_id \in Users, file_data \in HandlerInputs,
          preset_name \in ValidatePresets : H_Admit(r, user_id, file_data, preset_name)
    \/ \E r \in Requests, msg \in ValidateMessages : H_Submit(r, msg, None)
    \/ PW_While
    \/ PW_Get
    \/ PW_Timeout
    \/ PW_Acquire
    \/ \E s \in {"true", "false"} : PW_Engine(s, s = "true")
    \/ H_Callback
    \/ \E ok \in BOOLEAN : H_CbEdit(ok, None)
    \/ H_CbSend
    \/ PW_TaskDone
    \/ CleanupThrottled
    \/ CleanupExpire
    \/ CleanupEvict
    \/ Elapse

ValidateSpec == HandlerInit /\ [][ValidateNext]_vars

\* ------------------------------- _check_rate_limit called for several users
\* the commands of several users reach _check_rate_limit in any order, at any time
RateNext ==
    \/ InitWorker
    \/ PW_While
    \/ PW_Timeout
    \/ \E r \in RateRequests, user_id \in RateUsers, file_data \in HandlerInputs,
          preset_name \in HandlerPresets : H_Admit(r, user_id, file_data, preset_name)
    \/ Elapse

RateSpec == HandlerInit /\ [][RateNext]_vars

\* ============================== AudioCache: a get() that overlaps a set()
\* set() and get() are coroutines of one event loop and suspend at their awaits:
\* set() at aiofiles.open(metadata_path, "w") and at f.write (cache.py:136-137), get()
\* at aiofiles.open(metadata_path, "r") and at f.read (cache.py:78-79).  The file
\* operations themselves run in a thread of the executor; the coroutine resumes in a
\* later turn of the loop.  Here the steps of set() are taken one await at a time.

\* the inputs and presets of the overlapping calls
RaceInputs == {<<"a">>, <<"a", "b">>}
RacePresets == {<<"c">>}

\* set() up to the await of aiofiles.open: the payload links to output_path
R_SetLink(file_data, preset_id) ==
    LET cache_path == PathOf(file_data, preset_id) IN
    /\ cpc = "idle"
    /\ CACHE_ENABLED
    /\ processed' = processed + st_size(file_data, preset_id)
    /\ processed' <= MaxProcessed
    /\ payload' = [payload EXCEPT ![cache_path] =
                       [size   |-> st_size(file_data, preset_id),
                        input  |-> file_data,
                        preset |-> preset_id]]
    /\ cpc' = "open"
    /\ call' = <<[cache_path |-> cache_path, out_exists |-> TRUE]>>
    /\ entries' = <<>>
    /\ UNCHANGED <<meta, last_cleanup, got, log, passes, now, workerVars, extVars>>

\* open(metadata_path, "w") has run: the file exists and is empty
R_SetOpen ==
    /\ cpc = "open"
    /\ meta' = [meta EXCEPT ![call[1].cache_path] =
                    [file |-> TRUE, json |-> FALSE, created_at |-> 0]]
    /\ orphan' = FALSE
    /\ cpc' = "write"
    /\ UNCHANGED <<payload, processed, last_cleanup, got, log, call, entries, passes, now,
                   workerVars, deleteVars, handlerVars, engineVars, gpc, gcall, gmeta>>

\* f.write(json.dumps(meta)) and the close have run: the text goes to the file that was
\* opened, which is no longer in the directory when it has been unlinked since
R_SetWrite ==
    /\ cpc = "write"
    /\ meta' = IF orphan THEN meta
               ELSE [meta EXCEPT ![call[1].cache_path] =
                         [file |-> TRUE, json |-> TRUE, created_at |-> now]]
    /\ orphan' = FALSE
    /\ cpc' = "cleanup"
    /\ UNCHANGED <<payload, processed, last_cleanup, got, log, call, entries, passes, now,
                   workerVars, deleteVars, handlerVars, engineVars, gpc, gcall, gmeta>>

\* get() up to the await of aiofiles.open: the two exists() tests
R_GetCall(file_data, preset_id) ==
    LET cache_path == PathOf(file_data, preset_id) IN
    /\ gpc = "idle"
    /\ CACHE_ENABLED
    /\ IF payload[cache_path].size = 0
       THEN got' = <<>> /\ log' = "Cache miss" /\ UNCHANGED <<gpc, gcall>>
       ELSE IF ~meta[cache_path].file
       THEN got' = <<>> /\ log' = "Cache metadata missing" /\ UNCHANGED <<gpc, gcall>>
       ELSE gpc' = "read" /\ gcall' = <<cache_path>> /\ UNCHANGED <<got, log>>
    /\ UNCHANGED <<payload, meta, processed, last_cleanup, cpc, call, entries, passes, now,
                   workerVars, deleteVars, handlerVars, engineVars, gmeta, orphan>>

\* the open and the read have run in the executor; a file that has gone makes open raise
R_GetRead ==
    /\ gpc = "read"
    /\ IF meta[gcall[1]].file
       THEN gmeta' = meta[gcall[1]] /\ gpc' = "resume" /\ UNCHANGED <<got, log, gcall>>
       ELSE /\ got' = <<>>
            /\ log' = "Error reading cache"
            /\ gpc' = "idle"
            /\ gcall' = <<>>
            /\ UNCHANGED gmeta
    /\ UNCHANGED <<payload, meta, processed, last_cleanup, cpc, call, entries, passes, now,
                   workerVars, deleteVars, handlerVars, engineVars, orphan>>

\* get() from the return of f.read to its end: json.loads, the expiry test, delete()
R_GetResume ==
    LET cache_path == gcall[1]
        d == delete([payload |-> payload, meta |-> meta], cache_path)
    IN
    /\ gpc = "resume"
    /\ IF ~gmeta.json
       THEN got' = <<>> /\ log' = "Error reading cache" /\ UNCHANGED <<payload, meta, orphan>>
       ELSE IF Expired(gmeta.created_at, now)
       THEN /\ payload' = d.payload
            /\ meta' = d.meta
            /\ orphan' = (orphan \/ (cpc = "write" /\ call[1].cache_path = cache_path))
            /\ got' = <<>>
            /\ log' = "Cache expired"
       ELSE got' = <<cache_path>> /\ log' = "Cache hit" /\ UNCHANGED <<payload, meta, orphan>>
    /\ gpc' = "idle"
    /\ gcall' = <<>>
    /\ gmeta' = NoMeta
    /\ UNCHANGED <<processed, last_cleanup, cpc, call, entries, passes, now, workerVars,
                   deleteVars, handlerVars, engineVars>>

RaceInit ==
    /\ now = Epoch
    /\ WorkerConstructed
    /\ CacheConstructed
    /\ ExtIdle

RaceNext ==
    \/ \E b \in RaceInputs, p \in RacePresets : R_SetLink(b, p)
    \/ R_SetOpen
    \/ R_SetWrite
    \/ CleanupThrottled
    \/ CleanupExpire
    \/ CleanupEvict
    \/ \E b \in RaceInputs, p \in RacePresets : R_GetCall(b, p)
    \/ R_GetRead
    \/ R_GetResume
    \/ Elapse

RaceSpec == RaceInit /\ [][RaceNext]_vars

\* ==================================================== presets.py, engine.py
\* Strings are sequences of characters.  Samples are integers in units of 1/Scale; a
\* float64 array holds any of them, a float32 array the multiples of F32Step.

Upper == <<"A", "B", "C", "D", "E", "F", "G", "H", "I", "J", "K", "L", "M",
           "N", "O", "P", "Q", "R", "S", "T", "U", "V", "W", "X", "Y", "Z">>
Lower == <<"a", "b", "c", "d", "e", "f", "g", "h", "i", "j", "k", "l", "m",
           "n", "o", "p", "q", "r", "s", "t", "u", "v", "w", "x", "y", "z">>

\* str.lower()
lower(str) ==
    [i \in 1..Len(str) |->
        IF \E k \in 1..Len(Upper) : Upper[k] = str[i]
        THEN Lower[CHOOSE k \in 1..Len(Upper) : Upper[k] = str[i]]
        ELSE str[i]]

\* the key "cinema"
cinema == <<"c", "i", "n", "e", "m", "a">>

\* a lookup that takes the name as it is written
get_preset_CaseSensitive(preset_name) ==
    IF preset_name \in DOMAIN PRESETS THEN PRESETS[preset_name] ELSE PRESETS[cinema]

\* get_preset: PRESETS.get(preset_name.lower()), else PRESETS["cinema"]
get_preset(preset_name) ==
    IF lower(preset_name) \in DOMAIN PRESETS
    THEN PRESETS[lower(preset_name)]
    ELSE PRESETS[cinema]

\* x / d rounded to the nearest integer (d > 0)
rdiv(x, d) == (2 * x + d) \div (2 * d)

abs(x) == IF x < 0 THEN 0 - x ELSE x

\* .astype(np.float32) of a channel
astype_float32(ch) == [i \in 1..Len(ch) |-> F32Step * rdiv(ch[i], F32Step)]

zeros(n) == [i \in 1..n |-> 0]

\* np.mean(audio, axis=1) of the channels of a 2-D array
mean_axis1(chs) ==
    [i \in 1..Len(chs[1]) |-> rdiv(chs[1][i] + chs[2][i], Len(chs))]

\* signal.lfilter(b, a, x) with c = <<b0, b1, b2, a1, a2>>, a0 = 1, over x[lo..hi]:
\* y[n] = b0 x[n] + b1 x[n-1] + b2 x[n-2] - a1 y[n-1] - a2 y[n-2], where st holds
\* <<x[lo-1], x[lo-2], y[lo-1], y[lo-2]>>; the range is halved to keep the nesting flat
RECURSIVE lfilter_seg(_, _, _, _, _)
lfilter_seg(c, x, lo, hi, st) ==
    IF lo > hi THEN [y |-> <<>>, st |-> st]
    ELSE IF lo = hi
    THEN LET v == rdiv(c[1] * x[lo] + c[2] * st[1] + c[3] * st[2]
                           - c[4] * st[3] - c[5] * st[4], CoefScale)
         IN  [y |-> <<v>>, st |-> <<x[lo], st[1], v, st[3]>>]
    ELSE LET mid   == (lo + hi) \div 2
             first == lfilter_seg(c, x, lo, mid, st)
             rest  == lfilter_seg(c, x, mid + 1, hi, first.st)
         IN  [y |-> first.y \o rest.y, st |-> rest.st]

lfilter(c, x) == lfilter_seg(c, x, 1, Len(x), <<0, 0, 0, 0>>).y

\* the loop of _apply_eq over the bands, from band k on
RECURSIVE eq_from(_, _, _)
eq_from(arr, eq_bands, k) ==
    IF k > Len(eq_bands) THEN arr
    ELSE IF eq_bands[k].gain = 0 THEN eq_from(arr, eq_bands, k + 1)
    ELSE eq_from(lfilter(PeakingCoef[<<eq_bands[k].frequency, eq_bands[k].gain,
                                       eq_bands[k].q_factor>>], arr),
                 eq_bands, k + 1)

\* _apply_eq: return processed.astype(np.float32)
apply_eq(audio, eq_bands) ==
    IF eq_bands = <<>> THEN audio ELSE astype_float32(eq_from(audio, eq_bands, 1))

\* the sum of the squares of ch[lo..hi]
RECURSIVE SumSq(_, _, _)
SumSq(ch, lo, hi) ==
    IF lo > hi THEN 0
    ELSE IF lo = hi THEN ch[lo] * ch[lo]
    ELSE SumSq(ch, lo, (lo + hi) \div 2) + SumSq(ch, (lo + hi) \div 2 + 1, hi)

\* the largest r with r * r <= x, sought between lo and hi
RECURSIVE isqrt_in(_, _, _)
isqrt_in(x, lo, hi) ==
    IF lo >= hi THEN lo
    ELSE LET mid == (lo + hi + 1) \div 2 IN
         IF mid * mid <= x THEN isqrt_in(x, mid, hi) ELSE isqrt_in(x, lo, mid - 1)

isqrt(x) == isqrt_in(x, 0, 46340)

\* ms_energy of _calculate_loudness: np.mean(filtered ** 2) after the 75 Hz highpass
\* (the two columns of the stacked array are equal, so is their mean)
ms_energy(ch) == SumSq(lfilter(HighpassCoef, ch), 1, Len(ch)) \div Len(ch)

\* gain_linear of normalize_loudness, in thousandths:
\* 10 ** ((target - (-0.691 + 10 * log10(ms + 1e-10))) / 20)
\*     = 10 ** ((target + 0.691) / 20) / sqrt(ms + 1e-10)
gain_linear(ch, target_loudness) ==
    LET ms == ms_energy(ch) IN
    IF ms = 0 THEN LinearOf[target_loudness] * Scale * 100
    ELSE (LinearOf[target_loudness] * Scale * 10) \div isqrt(ms * 100)

\* np.tanh of t thousandths, in units of 1/Scale
tanh(t) ==
    LET a == abs(t)
        k == a \div 50
        v == IF a >= 5000 THEN Scale
             ELSE rdiv((TanhTable[k + 1] * 50 + (TanhTable[k + 2] - TanhTable[k + 1]) * (a % 50))
                           * Scale, 50000)
    IN  IF t < 0 THEN 0 - v ELSE v

\* normalize_loudness of one channel: np.tanh(audio * gain_linear)
normalize_loudness(ch, target_loudness) ==
    IF ch = <<>> THEN ch
    ELSE LET g == gain_linear(ch, target_loudness) IN
         [i \in 1..Len(ch) |-> tanh(rdiv(ch[i] * g, Scale))]

\* one sample of the full convolution of x with the taps h (in 1/Scale), summed from tap t on
RECURSIVE conv_sum(_, _, _, _)
conv_sum(x, h, k, t) ==
    IF t > Len(h) THEN 0
    ELSE (IF k - t + 1 >= 1 /\ k - t + 1 <= Len(x) THEN h[t] * x[k - t + 1] ELSE 0)
             + conv_sum(x, h, k, t + 1)

\* signal.fftconvolve(x, h, mode='same'): the centre of the full convolution, len(x) long
fftconvolve_same(x, h) ==
    [i \in 1..Len(x) |-> rdiv(conv_sum(x, h, i + (Len(h) - 1) \div 2, 1), Scale)]

\* itd_samples = int(0.0007 * self.sample_rate * preset.itd_exaggeration)
itd_samples(p) == (7 * DEFAULT_SAMPLE_RATE * p.itd_exaggeration) \div 1000000

\* the largest absolute value of ch[lo..hi]
RECURSIVE MaxAbs(_, _, _)
MaxAbs(ch, lo, hi) ==
    IF lo > hi THEN 0
    ELSE IF lo = hi THEN abs(ch[lo])
    ELSE LET l == MaxAbs(ch, lo, (lo + hi) \div 2)
             r == MaxAbs(ch, (lo + hi) \div 2 + 1, hi)
         IN  IF l > r THEN l ELSE r

\* np.max(np.abs(binaural))
max_val(left, right) ==
    LET l == MaxAbs(left, 1, Len(left))
        r == MaxAbs(right, 1, Len(right))
    IN  IF l > r THEN l ELSE r

\* if max_val > 1.0: binaural = binaural / max_val * 0.99
limit(ch, m) ==
    IF m > Scale THEN [i \in 1..Len(ch) |-> rdiv(ch[i] * 99 * Scale, m * 100)]
    ELSE ch

\* audio after "ensure mono" and astype(np.float64)
mono(audio) == IF audio.ndim > 1 THEN mean_axis1(audio.ch) ELSE audio.ch[1]

\* audio after the EQ step of spatialize
equalized(audio, p) ==
    IF p.use_eq /\ EQPresets[p.eq_preset] # <<>>
    THEN apply_eq(mono(audio), EQPresets[p.eq_preset])
    ELSE mono(audio)

\* SpatializeEngine.spatialize: raised tells whether the except branch returned
spatialize(audio, p, h) ==
    LET eq    == equalized(audio, p)
        itd   == itd_samples(p)
        left0 == IF h # <<>> THEN fftconvolve_same(eq, h[1])
                 ELSE IF itd > 0
                 THEN zeros(itd) \o (IF Len(eq) > itd THEN SubSeq(eq, 1, Len(eq) - itd)
                                     ELSE <<>>)
                 ELSE eq
        right0 == IF h # <<>> THEN fftconvolve_same(eq, h[2]) ELSE eq
        left1  == [i \in 1..Len(left0) |-> rdiv(left0[i] * p.ild_exaggeration, 100)]
        right1 == [i \in 1..Len(right0) |-> rdiv(right0[i] * 100, p.ild_exaggeration)]
        \* np.stack needs equal shapes; np.max needs a non-empty array
        raises == Len(left1) # Len(right1) \/ Len(left1) = 0
        left2  == IF p.normalize_loudness THEN normalize_loudness(left1, p.target_loudness)
                  ELSE left1
        right2 == IF p.normalize_loudness THEN normalize_loudness(right1, p.target_loudness)
                  ELSE right1
        m      == max_val(left2, right2)
    IN  IF raises
        THEN [raised |-> TRUE, left |-> astype_float32(eq), right |-> astype_float32(eq)]
        ELSE [raised |-> FALSE,
              left   |-> astype_float32(limit(left2, m)),
              right  |-> astype_float32(limit(right2, m))]

\* ---------------------------------------------------------- engine inputs
\* lengths of the arrays, in frames: shorter than every ITD delay, longer than every
\* ITD delay, and long enough for a single click to have a crest factor above 12
ShortLen == 3
MidLen == 48
LongLen == 200

maxwide == <<"m", "a", "x", "w", "i", "d", "e">>
neutral == <<"n", "e", "u", "t", "r", "a", "l">>

\* the names get_preset is called with
PresetNames ==
    DOMAIN Catalog \cup
    {<<"C", "i", "n", "e", "m", "a">>, <<"C", "I", "N", "E", "M", "A">>,
     <<"M", "a", "x", "W", "i", "d", "e">>, <<"N", "E", "U", "T", "R", "A", "L">>,
     <<"d", "o", "e", "s", "N", "o", "t", "E", "x", "i", "s", "t">>, <<>>}

Mono_array(ch) == [ndim |-> 1, ch |-> <<ch>>]
Stereo_array(l, r) == [ndim |-> 2, ch |-> <<l, r>>]

\* a dense signal of float32 values, the same signal moved off the float32 values, a
\* full-scale square wave, and a single click followed by silence
Tone(n) == [i \in 1..n |-> (((i * 37) % 41) - 20) * 24]
ToneOff(n) == [i \in 1..n |-> (((i * 37) % 41) - 20) * 24 + 1]
FullScale(n) == [i \in 1..n |-> IF i % 2 = 1 THEN Scale ELSE 0 - Scale]
Click(n) == [i \in 1..n |-> IF i = 1 THEN Scale \div 2 ELSE 0]

\* what sf.read(wav_path) returns: the file is the stereo 16-bit file ffmpeg has written
Decoded ==
    {Stereo_array(Tone(MidLen), Tone(MidLen)),
     Stereo_array(FullScale(MidLen), FullScale(MidLen)),
     Stereo_array(Click(LongLen), Click(LongLen))}

\* the arrays spatialize is called with directly
Arrays ==
    Decoded \cup
    {Mono_array(<<>>), Mono_array(Tone(ShortLen)), Mono_array(FullScale(ShortLen)),
     Mono_array(ToneOff(MidLen))}

\* HRIRPreset(name, description): every other field at its default
DefaultPreset ==
    [name |-> "Default", eq_preset |-> "list()", use_eq |-> TRUE,
     ild_exaggeration |-> 100, itd_exaggeration |-> 100,
     normalize_loudness |-> TRUE, target_loudness |-> -14]

\* the presets spatialize is called with directly
DirectPresets ==
    {Catalog[k] : k \in DOMAIN Catalog} \cup
    {DefaultPreset,
     [Catalog[neutral] EXCEPT !.use_eq = FALSE],
     [Catalog[maxwide] EXCEPT !.normalize_loudness = FALSE]}

\* the taps of the two HRIR files, in 1/Scale
KemarTaps == << <<600, 300, 100>>, <<400, 300, 200>> >>

\* _load_hrir: the files are there, or they are not
HrirFiles == {<<>>, KemarTaps}

nonEngineVars == <<now, workerVars, cacheVars, deleteVars, raceVars, handlerVars>>

\* ------------------------------------------------------ process_audio_file
\* preset = get_preset(preset_name); wav_path is named
P_Begin(preset_name) ==
    /\ epc = "idle"
    /\ ecall' = preset_name
    /\ preset' = get_preset(preset_name)
    /\ epc' = "convert"
    /\ UNCHANGED <<PRESETS, hrir, wav, audio_data, spatialized, eret, eout, nonEngineVars>>

\* the except branch of process_audio_file: wav_path.unlink(missing_ok=True); return False
pipeline_except ==
    /\ wav' = FALSE
    /\ eret' = "False"
    /\ epc' = "returned"

\* a pipeline that goes on to sf.read when convert_to_wav has returned False
P_Convert_IgnoresFailure(ok, partial) ==
    /\ epc = "convert"
    /\ wav' = (ok \/ partial)
    /\ epc' = "load"
    /\ UNCHANGED <<PRESETS, hrir, ecall, preset, audio_data, spatialized, eret, eout, nonEngineVars>>

\* step 1: convert_to_wav; when ffmpeg fails or is timed out it may have written a part
\* of wav_path (partial).  if not ...: return False
P_Convert(ok, partial) ==
    /\ epc = "convert"
    /\ IF ok
       THEN wav' = TRUE /\ epc' = "load" /\ UNCHANGED eret
       ELSE wav' = partial /\ eret' = "False" /\ epc' = "returned"
    /\ UNCHANGED <<PRESETS, hrir, ecall, preset, audio_data, spatialized, eout, nonEngineVars>>

\* step 2: audio_data, sr = sf.read(wav_path)
P_Load(audio, raises) ==
    /\ epc = "load"
    /\ IF raises
       THEN pipeline_except /\ UNCHANGED audio_data
       ELSE audio_data' = audio /\ epc' = "spatialize" /\ UNCHANGED <<wav, eret>>
    /\ UNCHANGED <<PRESETS, hrir, ecall, preset, spatialized, eout, nonEngineVars>>

\* step 3: spatialized = self.spatialize(audio_data, preset)
P_Spatialize ==
    /\ epc = "spatialize"
    /\ spatialized' = spatialize(audio_data, preset, hrir)
    /\ epc' = "write"
    /\ UNCHANGED <<PRESETS, hrir, ecall, preset, wav, audio_data, eret, eout, nonEngineVars>>

\* sf.write(wav_path, spatialized, ...)
P_Write(raises) ==
    /\ epc = "write"
    /\ IF raises
       THEN pipeline_except
       ELSE epc' = "encode" /\ UNCHANGED <<wav, eret>>
    /\ UNCHANGED <<PRESETS, hrir, ecall, preset, audio_data, spatialized, eout, nonEngineVars>>

\* step 4: encode_output; when ffmpeg fails or is timed out it may have written a part
\* of output_path (partial).  if not ...: return False
P_Encode(ok, partial) ==
    /\ epc = "encode"
    /\ IF ok
       THEN eout' = TRUE /\ epc' = "cleanup" /\ UNCHANGED eret
       ELSE eout' = partial /\ eret' = "False" /\ epc' = "returned"
    /\ UNCHANGED <<PRESETS, hrir, ecall, preset, wav, audio_data, spatialized, nonEngineVars>>

\* wav_path.unlink(missing_ok=True); return True
P_Cleanup ==
    /\ epc = "cleanup"
    /\ wav' = FALSE
    /\ eret' = "True"
    /\ epc' = "returned"
    /\ UNCHANGED <<PRESETS, hrir, ecall, preset, audio_data, spatialized, eout, nonEngineVars>>

\* a direct call engine.spatialize(audio, preset)
SpatializeCall(audio, p) ==
    /\ epc = "idle"
    /\ audio_data' = audio
    /\ preset' = p
    /\ spatialized' = spatialize(audio, p, hrir)
    /\ epc' = "direct"
    /\ UNCHANGED <<PRESETS, hrir, ecall, wav, eret, eout, nonEngineVars>>

\* SpatializeEngine.__init__ and the import of presets.py
EngineInit ==
    /\ now = Epoch
    /\ WorkerConstructed
    /\ CacheConstructed
    /\ DeleteIdle
    /\ HandlerConstructed
    /\ RaceIdle
    /\ PRESETS = Catalog
    /\ hrir \in HrirFiles
    /\ epc = "idle"
    /\ ecall = <<>>
    /\ preset = None
    /\ wav = FALSE
    /\ audio_data = None
    /\ spatialized = None
    /\ eret = None
    /\ eout = FALSE

EngineNext ==
    \/ \E preset_name \in PresetNames : P_Begin(preset_name)
    \/ \E ok \in BOOLEAN, partial \in BOOLEAN : P_Convert(ok, partial)
    \/ \E audio \in Decoded, raises \in BOOLEAN : P_Load(audio, raises)
    \/ P_Spatialize
    \/ \E raises \in BOOLEAN : P_Write(raises)
    \/ \E ok \in BOOLEAN, partial \in BOOLEAN : P_Encode(ok, partial)
    \/ P_Cleanup
    \/ \E audio \in Arrays, p \in DirectPresets : SpatializeCall(audio, p)

EngineSpec == EngineInit /\ [][EngineNext]_vars

\* ================================================================ claims
StatusOf(t) == tasks[t].status

\* the queue of generation g holds task t
InQueue(t, g) == \E i \in 1..Len(queue[g]) : queue[g][i] = t

\* the dispatcher holds task t, or t sits in a queue and the loop has not ended
Pending(t) == t = cur \/ (pc # "exited" /\ \E g \in Gens : InQueue(t, g))

BecomesProcessing(t) ==
    t \in DOMAIN tasks' /\ tasks'[t].status = "processing" /\ tasks[t].status # "processing"

\* C1: a task whose status is completed or failed never changes status again.
C1_TerminalIsFinal ==
    [][\A t \in DOMAIN tasks :
          (t \in DOMAIN tasks' /\ tasks[t].status \in Terminal)
              => tasks'[t].status = tasks[t].status]_vars

\* C2: the number of tasks whose status is processing never exceeds max_concurrent.
C2_ConcurrencyBound ==
    Cardinality({t \in DOMAIN tasks : StatusOf(t) = "processing"}) <= max_concurrent

\* more tasks were accepted than there are slots, one is processing, the others wait
C2_Witness ==
    /\ Cardinality(DOMAIN tasks) > max_concurrent
    /\ \E t \in DOMAIN tasks : StatusOf(t) = "processing"
    /\ \E t \in DOMAIN tasks : StatusOf(t) = "queued"

\* C3: an enqueue call made while the worker is not running or the pending queue is at
\* capacity returns False and leaves tasks, user_tasks and the queue unchanged; the
\* pending queue never grows beyond the capacity.
C3_EnqueueRejects ==
    /\ [](\A g \in Gens : Len(queue[g]) <= QueueCap)
    /\ [][(nextid' # nextid /\ (~running \/ qsize >= QueueCap))
             => (ret' = "False" /\ tasks' = tasks /\ user_tasks' = user_tasks
                 /\ queue' = queue)]_vars

\* the last of MaxTasks calls was refused because the queue was full
C3_Witness ==
    /\ running
    /\ qsize = QueueCap
    /\ ret = "False"
    /\ Cardinality(DOMAIN tasks) = QueueCap
    /\ nextid = QueueCap + 2

\* C4 (as claimed): when the dispatcher sets B to processing, every task accepted before
\* B has already been set to processing.
C4_FifoStrict ==
    [][\A b \in DOMAIN tasks :
          BecomesProcessing(b)
              => \A a \in DOMAIN tasks : a < b => tasks[a].start_time # 0]_vars

\* C4 (amended): when the dispatcher sets B to processing, no task accepted after B has
\* been set to processing before it.
C4_FifoAmongProcessed ==
    [][\A b \in DOMAIN tasks :
          BecomesProcessing(b)
              => \A a \in DOMAIN tasks : a > b => tasks[a].start_time = 0]_vars

\* two tasks were set to processing one after the other
C4_Witness ==
    \E a, b \in DOMAIN tasks :
        a < b /\ tasks[a].start_time # 0 /\ StatusOf(b) = "processing"

\* C5: stop() leaves every task that was queued or processing failed with "Worker
\* stopped", and while the worker stays stopped the dispatcher dequeues no task and
\* sets no task to processing.
C5_StopHaltsDispatch ==
    [][/\ (running /\ ~running')
            => \A t \in DOMAIN tasks :
                   StatusOf(t) \in Active
                       => tasks'[t].status = "failed" /\ tasks'[t].error = WorkerStopped
       /\ (~running /\ ~running')
            => /\ cur' \in {cur, 0}
               /\ \A t \in DOMAIN tasks : ~BecomesProcessing(t)]_vars

\* C6: the callback of an accepted task is invoked at most once, only when the task is
\* completed or failed, and a terminal task that went through the dispatcher, or was
\* left in a queue when the loop ended, has had its callback invoked.
C6_CallbackExactlyOnce ==
    \A t \in DOMAIN tasks :
        tasks[t].callback
            => /\ cbcount[t] <= 1
               /\ cbcount[t] > 0 => StatusOf(t) \in Terminal
               /\ (StatusOf(t) \in Terminal /\ ~Pending(t)) => cbcount[t] = 1

\* C7: whenever process_worker is outside an iteration (at the queue wait, at the loop
\* test, sleeping or finished) every slot of every semaphore is free, and an iteration
\* never ends the loop, whether the engine or the callback raised.
C7_SlotReleased ==
    /\ [](pc \in {"spawned", "top", "get", "sleep", "exited"}
            => \A g \in Gens : sem[g] = max_concurrent)
    /\ [][(pc \in {"acquire", "engine", "finally", "cbawait", "taskdone"})
             => (pc' # "exited")]_vars

\* after an iteration whose engine call and callback both raised, the loop is processing
\* the next task and holds one slot
C7_Witness ==
    /\ pc = "engine"
    /\ cb_exc
    /\ cur > 1
    /\ cur - 1 \in DOMAIN tasks
    /\ tasks[cur - 1].error = StrE
    /\ cbcount[cur - 1] = 1
    /\ sem[ds] = max_concurrent - 1

Accepted(t) == t \in DOMAIN tasks

\* task t is completed, or failed with an error string
Ended(t) ==
    IF t \in DOMAIN tasks
    THEN /\ tasks[t].status \in Terminal
         /\ tasks[t].status = "failed" => tasks[t].error \notin {None, ""}
    ELSE FALSE

\* C8: every accepted task eventually is completed or failed, a failed one with an error
\* string, when the dispatcher is scheduled fairly and engine calls and callbacks return.
C8_EveryTaskTerminates ==
    \A t \in TaskIds : Accepted(t) ~> Ended(t)

\* C9: the input file of a terminal task is gone once the task went through the
\* dispatcher, or was left in a queue when the loop ended.
C9_InputFileRemoved ==
    \A t \in DOMAIN tasks :
        (StatusOf(t) \in Terminal /\ ~Pending(t)) => t \notin files

\* C10: after the engine call the task (while it is in the task table) is completed, with end_time and a result of output
\* size and duration, exactly when the call returned true and the output file exists; in
\* every other case it is failed with an error string and end_time.
C10_OutcomeMatchesEngine ==
    (pc \in {"finally", "cbawait", "taskdone"} /\ cur \in DOMAIN tasks)
        => LET task == tasks[cur] IN
           IF success = "true" /\ exists
           THEN /\ task.status = "completed"
                /\ task.end_time # 0
                /\ Len(task.result) = 1
                /\ task.result[1].output_size = "st_size"
                /\ task.result[1].duration = task.end_time - task.start_time
           ELSE /\ task.status = "failed"
                /\ task.error \in {ProcessingFailed, StrE}
                /\ task.end_time # 0
                /\ task.result = <<>>

\* a task was completed after an engine call that took time, and one failed
C10_Witness ==
    /\ pc = "taskdone"
    /\ success = "true"
    /\ exists
    /\ cur \in DOMAIN tasks
    /\ StatusOf(cur) = "completed"
    /\ tasks[cur].result[1].duration > 0
    /\ \E t \in DOMAIN tasks : StatusOf(t) = "failed" /\ tasks[t].error = ProcessingFailed

\* task t is listed in the per-user index
Indexed(ut, t) == \E u \in DOMAIN ut : \E i \in 1..Len(ut[u]) : ut[u][i] = t

\* C11: cleanup_old_tasks(h) removes from the task table and from the per-user index
\* every completed or failed task that became so more than h hours ago, and removes no
\* other task.
C11_EvictsOldTerminal ==
    [][\A h \in 0..MaxHours :
          CleanupOldTasks(h)
              => \A t \in DOMAIN tasks :
                     IF tasks[t].status \in Terminal /\ now - ended[t] > h
                     THEN t \notin DOMAIN tasks' /\ ~Indexed(user_tasks', t)
                     ELSE t \in DOMAIN tasks' /\ Indexed(user_tasks', t)]_vars

\* ------------------------------------------------------ claims: the cache
\* the cache holds payload and readable metadata for (b, p)
Entry(b, p) ==
    /\ payload[PathOf(b, p)].size > 0
    /\ meta[PathOf(b, p)].file
    /\ meta[PathOf(b, p)].json

Age(cp) == now - meta[cp].created_at

\* a set() call returns
SetReturns == cpc # "idle" /\ cpc' = "idle"

\* C12: when set(b, p, produced_path) returns, for a produced file that exists, the cache
\* holds one entry for (b, p), created at the time of the call; a get(b, p) on an entry
\* younger than the ttl returns the path of that entry, which holds the output for
\* (b, p); no two payloads are stored for one (b, p).
C12_SetThenGetHits ==
    /\ [][(SetReturns /\ call[1].out_exists)
             => LET cp == call[1].cache_path IN
                /\ payload'[cp].size > 0
                /\ meta'[cp] = [file |-> TRUE, json |-> TRUE, created_at |-> now]]_vars
    /\ [][\A b \in Inputs, p \in PresetIds :
             (CacheGet(b, p) /\ Entry(b, p) /\ Age(PathOf(b, p)) < CACHE_TTL)
                 => /\ got' = <<PathOf(b, p)>>
                    /\ payload'[PathOf(b, p)].input = b
                    /\ payload'[PathOf(b, p)].preset = p]_vars
    /\ [](\A b \in Inputs, p \in PresetIds :
             Cardinality({cp \in Paths : payload[cp].input = b /\ payload[cp].preset = p}) <= 1)

\* a get hit on an entry that was stored again after a cleanup pass had run, one tick
\* after it was stored
C12_Witness ==
    \E b \in Inputs, p \in PresetIds :
        /\ cpc = "idle"
        /\ got = <<PathOf(b, p)>>
        /\ Entry(b, p)
        /\ passes > 0
        /\ meta[PathOf(b, p)].created_at > Epoch
        /\ Age(PathOf(b, p)) = 1

\* C13: a get(b, p) that returns a path returns the path of (b, p), whose payload is the
\* output stored for (b, p) itself, also when another pair has the same concatenation of
\* bytes and preset id; get and set take nothing but the content and the preset.
C13_NoFalseHit ==
    /\ [][\A b \in Inputs, p \in PresetIds :
             (CacheGet(b, p) /\ got' # <<>>)
                 => /\ got' = <<PathOf(b, p)>>
                    /\ payload[got'[1]].input = b
                    /\ payload[got'[1]].preset = p]_vars
    /\ [](\A b1 \in Inputs, p1 \in PresetIds, b2 \in Inputs, p2 \in PresetIds :
             PathOf(b1, p1) = PathOf(b2, p2) => (b1 = b2 /\ p1 = p2))

\* a hit for ("a", "bc") while the entry of ("ab", "c"), which has the same hash, is stored
C13_Witness ==
    /\ compute_hash(<<"a">>, <<"b", "c">>) = compute_hash(<<"a", "b">>, <<"c">>)
    /\ got = <<PathOf(<<"a">>, <<"b", "c">>)>>
    /\ Entry(<<"a">>, <<"b", "c">>)
    /\ Entry(<<"a", "b">>, <<"c">>)
    /\ payload[PathOf(<<"a", "b">>, <<"c">>)].input = <<"a", "b">>

\* C14: get(b, p) on a stored entry returns its path exactly when the age of the entry,
\* now - created_at, is below the ttl; at an age of the ttl or more it reports a miss.
C14_ValidIffYoungerThanTtl ==
    [][\A b \in Inputs, p \in PresetIds :
          (CacheGet(b, p) /\ Entry(b, p))
              => (got' = <<PathOf(b, p)>> <=> Age(PathOf(b, p)) < CACHE_TTL)]_vars

\* C15: a get(b, p) on a stored entry whose age is ttl + 1 or more returns None, and when
\* it returns neither the payload nor the metadata file of the entry exists.
C15_LazyExpiry ==
    [][\A b \in Inputs, p \in PresetIds :
          (CacheGet(b, p) /\ Entry(b, p) /\ Age(PathOf(b, p)) >= CACHE_TTL + 1)
              => /\ got' = <<>>
                 /\ payload'[PathOf(b, p)] = NoPayload
                 /\ meta'[PathOf(b, p)] = NoMeta]_vars

\* a get found an entry expired and no cleanup pass has ever run: nothing is left
C15_Witness ==
    /\ log = "Cache expired"
    /\ got = <<>>
    /\ passes = 0
    /\ \A cp \in Paths : payload[cp] = NoPayload /\ meta[cp] = NoMeta

\* C16: whenever no set() call is in progress, the payloads stored in the cache add up to
\* at most max_size.
C16_SizeWithinCap ==
    cpc = "idle" => stored_size(payload) <= MAX_CACHE_SIZE

\* the entries that are stored
Stored == {cp \in Paths : payload[cp].size > 0}

\* the last cleanup pass deleted the listed entry e for size: it was not expired, it is
\* gone, and no time has passed since
EvictedForSize(e) ==
    /\ cpc = "idle"
    /\ passes > 0
    /\ now = last_cleanup
    /\ ~Expired(e.created_at, last_cleanup)
    /\ e.path \notin Stored

\* C17: a cleanup pass that finds the total above max_size ends with the total below 80%
\* of max_size, or with no more than the floor of newest entries left; a pass that finds
\* the total at or below max_size deletes nothing in its eviction step.
C17_EvictsBelowThreshold ==
    [][CleanupEvict
          => IF stored_size(payload) > MAX_CACHE_SIZE
             THEN \/ 5 * stored_size(payload') < 4 * MAX_CACHE_SIZE
                  \/ /\ Cardinality({cp \in Paths : payload'[cp].size > 0}) <= KeepFloor
                     /\ \A i \in 1..Len(entries) :
                            payload'[entries[i].path].size > 0 => i > Len(entries) - KeepFloor
             ELSE payload' = payload /\ meta' = meta]_vars

\* the step deletes the payload of cache path cp
Removed(cp) == payload[cp].size > 0 /\ payload'[cp].size = 0

\* C18: the size eviction of a cleanup pass deletes an entry only when every listed entry
\* with a smaller created_at is gone and at least the floor of entries created no earlier
\* stay; the expiry step of a pass deletes only entries older than the ttl.
C18_OldestFirstKeepsFloor ==
    /\ [][CleanupEvict
             => /\ \A cp \in Paths :
                       Removed(cp) => \E i \in 1..Len(entries) : entries[i].path = cp
                /\ \A i \in 1..Len(entries) :
                       Removed(entries[i].path)
                           => /\ \A j \in 1..Len(entries) :
                                     entries[j].created_at < entries[i].created_at
                                         => payload'[entries[j].path].size = 0
                              /\ Cardinality({j \in 1..Len(entries) :
                                                 /\ j # i
                                                 /\ entries[j].created_at >= entries[i].created_at
                                                 /\ payload'[entries[j].path].size > 0})
                                     >= KeepFloor]_vars
    /\ [][CleanupExpire
             => \A cp \in Paths :
                    Removed(cp) => now - CreatedAt(meta[cp]) > CACHE_TTL]_vars

\* a pass evicted the two oldest of its entries and kept the newest, all three created at
\* different times and none expired
C18_Witness ==
    /\ Len(entries) >= 3
    /\ EvictedForSize(entries[1])
    /\ EvictedForSize(entries[2])
    /\ entries[1].created_at < entries[2].created_at
    /\ entries[2].created_at < entries[Len(entries)].created_at
    /\ entries[Len(entries)].path \in Stored

C20_PassRemovesExpired ==
    /\ [][CleanupExpire
             => \A cp \in Paths :
                    /\ (payload'[cp].size > 0 /\ meta'[cp].file)
                           => meta'[cp].json /\ now - meta'[cp].created_at <= CACHE_TTL
                    /\ (payload[cp].size > 0 /\ meta[cp].file /\ ~meta[cp].json)
                           => payload'[cp] = NoPayload /\ meta'[cp] = NoMeta]_vars
    /\ [][CleanupEvict
             => \A cp \in Paths :
                    (payload'[cp].size > 0 /\ meta'[cp].file)
                        => meta'[cp].json /\ now - meta'[cp].created_at <= CACHE_TTL]_vars

\* a pass listed an entry with unreadable metadata next to one that had expired by age,
\* deleted both, and found the total size within the cap
C20_Witness ==
    /\ cpc = "idle"
    /\ now = last_cleanup
    /\ passes > 0
    /\ total_size(payload) <= MAX_CACHE_SIZE
    /\ \E i, j \in 1..Len(entries) :
           /\ entries[i].created_at = 0
           /\ entries[j].created_at > 0
           /\ Expired(entries[j].created_at, now)
           /\ entries[i].path \notin Stored
           /\ entries[j].path \notin Stored
           /\ ~meta[entries[i].path].file
           /\ ~meta[entries[j].path].file

\* C21: a delete() call leaves neither the payload nor the metadata of its entry, returns
\* True whether or not the entry existed (also when called a second time), and leaves
\* every other entry as it was.
C21_DeleteIdempotent ==
    [][\A cp \in Paths :
          (DeleteCall(cp) /\ deleted' = Append(deleted, cp))
              => /\ payload'[cp] = NoPayload
                 /\ meta'[cp] = NoMeta
                 /\ dret' = "True"
                 /\ \A other \in Paths \ {cp} :
                        payload'[other] = payload[other] /\ meta'[other] = meta[other]]_vars

\* delete() was called twice on one entry and returned True, and another entry of the
\* same preset directory is still stored with its metadata
C21_Witness ==
    /\ Len(deleted) = 2
    /\ deleted[1] = deleted[2]
    /\ dret = "True"
    /\ \E other \in Paths \ {deleted[1]} :
           /\ other.dir = deleted[1].dir
           /\ payload[other].size > 0
           /\ meta[other].file

\* C22: no failure of the cache files leaves the cache.  A get() whose payload or metadata
\* is missing, unreadable or malformed returns None without raising, and the request goes
\* on to worker.enqueue; a set() that fails returns False without raising, and the
\* callback goes on to send the processed file.
C22_CacheFailuresSwallowed ==
    [][/\ ~escaped'
       /\ \A r \in Requests, io \in {None, OSError} :
              (/\ H_Submit(r, OkMessage, io)
               /\ LET cp == PathOf(req[r].file_data, req[r].preset_name) IN
                      \/ payload[cp].size = 0
                      \/ ~meta[cp].file
                      \/ ~meta[cp].json
                      \/ io # None)
                  => got' = <<>> /\ outcome'[r] \in {"enqueued", "queue_full"}
       /\ \A fault \in {"copy", "meta"} :
              (H_CbEdit(TRUE, fault) /\ tasks[cur].status = "completed")
                  => sret' = "False" /\ hcb' = "send"
       /\ (hcb = "send" /\ hcb' # "send") => cur \in sent']_vars

\* a get() that could not read the metadata was followed by an enqueue, and the callback
\* of a completed task has sent the file after its set() returned False
C22_Witness ==
    /\ log = "Error reading cache"
    /\ \E r \in Requests : r > 1 /\ outcome[r] = "enqueued"
    /\ sret = "False"
    /\ pc = "taskdone"
    /\ cur \in sent
    /\ tasks[cur].status = "completed"
    /\ ~escaped

\* C24: a submission of the input and preset of a task that completed within the TTL,
\* and whose callback is over, is answered from the cache: the lookup (free of read
\* errors) hits, and no task is enqueued for it.
C24_SecondSubmissionCached ==
    [][\A r \in Requests :
          (/\ H_Submit(r, OkMessage, None)
           /\ \E t \in DOMAIN tasks :
                  /\ t # cur
                  /\ tasks[t].status = "completed"
                  /\ req[closure[t]].file_data = req[r].file_data
                  /\ req[closure[t]].preset_name = req[r].preset_name
                  /\ now - tasks[t].end_time <= CACHE_TTL)
              => outcome'[r] = "cached" /\ nextid' = nextid /\ tasks' = tasks]_vars

\* C30: for every user, neither the counter user_processing[user] nor the number of the
\* user's tasks that are queued or processing exceeds USER_MAX_CONCURRENT.
C30_UserConcurrencyCapped ==
    \A u \in Users :
        /\ user_processing[u] <= USER_MAX_CONCURRENT
        /\ Cardinality({t \in DOMAIN tasks :
                            tasks[t].user_id = u /\ tasks[t].status \in Active})
               <= USER_MAX_CONCURRENT

\* C23: when a get() call overlaps a set() call for the same input and preset, the set()
\* call that runs to its end (it returns True), without its own pass having to evict for
\* size, leaves the payload and a readable metadata file of its entry.
C23_ConcurrentSetLeavesEntry ==
    [][(/\ cpc \in {"cleanup", "evict"}
        /\ cpc' = "idle"
        /\ ~OverCap(total_size(payload)))
           => LET cache_path == call[1].cache_path IN
              /\ payload'[cache_path].size > 0
              /\ meta'[cache_path].file
              /\ meta'[cache_path].json]_vars

\* ------------------------------------------------------ claims: the engine
\* C25: when process_audio_file has returned, True or False, the intermediate file
\* <output stem>_temp.wav does not exist.
C25_NoTempFileLeft ==
    epc = "returned" => ~wav

\* spatialize has returned a buffer: process_audio_file is past step 3, or the call was
\* a direct one
Spatialized == epc \in {"write", "encode", "cleanup", "direct"}

\* the largest absolute sample of the buffer spatialize returned
Peak == max_val(spatialized.left, spatialized.right)

\* C26: the peak absolute sample of the buffer spatialize returns is at most 0.99.
C26_PeakWithinHeadroom ==
    Spatialized => Peak <= (99 * Scale) \div 100

\* p applies a band list that is not empty and whose bands all have gain 0
ZeroGainBands(p) ==
    /\ p.use_eq
    /\ EQPresets[p.eq_preset] # <<>>
    /\ \A k \in 1..Len(EQPresets[p.eq_preset]) : EQPresets[p.eq_preset][k].gain = 0

\* C27: with use_eq and a non-empty band list of zero gains, spatialize returns the buffer
\* it returns for the same input and preset with the EQ disabled.
C27_ZeroGainIsNoOp ==
    (Spatialized /\ ZeroGainBands(preset))
        => spatialized = spatialize(audio_data, [preset EXCEPT !.use_eq = FALSE], hrir)

\* the number of frames of an array
Frames(audio) == Len(audio.ch[1])

\* C28: spatialize returns two channels with as many frames as the input, and when an
\* internal step failed both channels are the mono input.
C28_FallbackIsMonoInput ==
    Spatialized
        => /\ Len(spatialized.left) = Frames(audio_data)
           /\ Len(spatialized.right) = Frames(audio_data)
           /\ spatialized.raised
                  => /\ spatialized.left = astype_float32(mono(audio_data))
                     /\ spatialized.right = astype_float32(mono(audio_data))

\* C29: get_preset returns, for every name, the catalog entry of the lower-cased name when
\* there is one and the entry "cinema" otherwise, and the catalog never changes.
C29_LookupTotalCaseInsensitive ==
    /\ PRESETS = Catalog
    /\ epc \notin {"idle", "direct"}
           => /\ preset \in {Catalog[k] : k \in DOMAIN Catalog}
              /\ preset = IF lower(ecall) \in DOMAIN Catalog
                          THEN Catalog[lower(ecall)]
                          ELSE Catalog[cinema]

\* process_audio_file ran to its end with the preset named "MaxWide", which is the
\* catalog entry "maxwide" and not the default
C29_Witness ==
    /\ epc = "returned"
    /\ eret = "True"
    /\ ecall = <<"M", "a", "x", "W", "i", "d", "e">>
    /\ preset = Catalog[maxwide]
    /\ preset # Catalog[cinema]

\* ------------------------------------------------------ claims: the worker, again
\* C34: every task that is completed or failed has end_time set, and its start_time, when
\* set, is not later than its end_time.
C34_TerminalHasEndTime ==
    \A t \in DOMAIN tasks :
        StatusOf(t) \in Terminal
            => /\ tasks[t].end_time # 0
               /\ tasks[t].start_time # 0 => tasks[t].start_time <= tasks[t].end_time

\* get_active_tasks / the "active_tasks" of get_queue_stats
ActiveCount == Cardinality({t \in DOMAIN tasks : StatusOf(t) \in Active})

\* C36: every task in the pending queue is queued, every queued task is in the pending
\* queue or held by the dispatcher that has just dequeued it, and the queue is never
\* longer than the number of active tasks.
C36_QueueHoldsQueuedTasks ==
    gen # 0
        => /\ \A i \in 1..Len(queue[gen]) :
                  queue[gen][i] \in DOMAIN tasks /\ StatusOf(queue[gen][i]) = "queued"
           /\ \A t \in DOMAIN tasks :
                  StatusOf(t) = "queued" => (InQueue(t, gen) \/ t = cur)
           /\ qsize <= ActiveCount

\* how often task id t is listed in user_tasks[u]
Listings(u, t) ==
    IF u \in DOMAIN user_tasks
    THEN Cardinality({i \in 1..Len(user_tasks[u]) : user_tasks[u][i] = t})
    ELSE 0

\* the tasks of user u in the task table
TasksOf(u) == {t \in DOMAIN tasks : tasks[t].user_id = u}

\* C35: a task id is listed in user_tasks[u], once, exactly when the task table holds a
\* task of that id and of user u, and get_user_tasks(u) returns the tasks of u in the
\* table, each once.
C35_IndexMatchesTable ==
    \A u \in IndexUsers :
        /\ \A t \in TaskIds :
               /\ Listings(u, t) <= 1
               /\ Listings(u, t) = 1 <=> t \in TasksOf(u)
        /\ {get_user_tasks(u)[i] : i \in 1..Len(get_user_tasks(u))} = TasksOf(u)
        /\ Len(get_user_tasks(u)) = Cardinality(TasksOf(u))

\* three tasks were enqueued for two users, cleanup_old_tasks has removed the first, and
\* each user is left with one task
C35_Witness ==
    /\ nextid = MaxTasks + 1
    /\ DOMAIN tasks = {2, 3}
    /\ tasks[2].user_id = 1
    /\ tasks[3].user_id = 2
    /\ get_user_tasks(1) = <<2>>
    /\ get_user_tasks(2) = <<3>>


\* C37: start() on a running worker changes nothing but its log line: the queue, the
\* semaphore, the task table and the per-user index stay as they are. The queue and
\* semaphore objects are replaced only by a start() on a stopped worker, and the new
\* queue is empty and the new semaphore full.
C37_StartOnRunningIsNoOp ==
    [][ /\ (started' = AlreadyRunning /\ started # AlreadyRunning)
            => /\ running
               /\ UNCHANGED <<running, max_concurrent, gen, queue, unfinished, sem, tasks, user_tasks>>
        /\ gen' # gen
            => /\ ~running
               /\ running'
               /\ started' = WorkerStarted
               /\ queue'[gen'] = <<>>
               /\ sem'[gen'] = max_concurrent
               /\ \A g \in Gens \ {gen'} : queue'[g] = queue[g] /\ sem'[g] = sem[g]
               /\ UNCHANGED <<tasks, user_tasks>> ]_vars

\* a second start() has been called on the first queue and semaphore while a task
\* was pending and a slot was held: both are still there
C37_Witness ==
    /\ started = AlreadyRunning
    /\ running
    /\ gen = 1
    /\ queue[1] # <<>>
    /\ sem[1] = max_concurrent - 1
    /\ StatusOf(cur) = "completed"



\* the order of the steps of process_audio_file
PipelineOrder ==
    { <<"idle", "convert">>, <<"convert", "load">>, <<"load", "spatialize">>,
      <<"spatialize", "write">>, <<"write", "encode">>, <<"encode", "cleanup">>,
      <<"cleanup", "returned">> }

\* the places process_audio_file returns False from
PipelineExits == {"convert", "load", "write", "encode"}

\* C39: process_audio_file converts, loads, spatializes, writes and encodes in this
\* order. It goes past the conversion only with the WAV file written and past the
\* encoding only with the output written, and it returns True only from there. When
\* the conversion fails it returns False with nothing loaded, spatialized or encoded.
\* Every call that leaves a step early returns False; none ends without a result.
C39_PipelineOrder ==
    [][ /\ epc' # epc /\ epc' # "direct"
            => \/ <<epc, epc'>> \in PipelineOrder
               \/ epc \in PipelineExits /\ epc' = "returned" /\ eret' = "False"
        /\ (epc = "convert" /\ epc' = "load") => wav'
        /\ (epc = "encode" /\ epc' = "cleanup") => eout'
        /\ (epc = "convert" /\ epc' = "returned")
            => eret' = "False" /\ UNCHANGED <<audio_data, spatialized, eout>>
        /\ (epc' = "returned") => eret' \in {"True", "False"}
        /\ (eret' = "True" /\ eret # "True") => epc = "cleanup" /\ wav /\ eout ]_vars

\* a call has returned True for a decoded file of the middle length: the output
\* exists and the intermediate file is gone
C39_Witness ==
    /\ epc = "returned"
    /\ eret = "True"
    /\ eout
    /\ ~wav
    /\ Frames(audio_data) = MidLen
    /\ hrir = KemarTaps



\* the instants of the clock
Times == Epoch..(Epoch + CacheClockSpan)

\* how many requests of user u that user_requests records fall in the hour ending at t
Recorded(u, t) ==
    Cardinality({i \in 1..Len(user_requests[u]) :
                    user_requests[u][i] > t - Hour /\ user_requests[u][i] <= t})

\* how often the instant t occurs in the list l
Occurrences(l, t) == Cardinality({i \in 1..Len(l) : l[i] = t})

\* the call for request r has passed _check_rate_limit in this step
Admitted(r) == rpc[r] = "new" /\ rpc'[r] = "admitted"

\* C31: user_requests[u] records every admission of u of the last hour and no more
\* than the hourly limit of them in any hour. An admission appends the current time to
\* the list of its user and leaves the lists of the others alone; a rejection appends
\* nothing; no step drops an entry that is younger than an hour; and no hour ending at
\* any instant holds more than the limit of recorded admissions of one user.
C31_HourlyRateCapped ==
    [][ /\ \A r \in RateRequests :
             Admitted(r) =>
                LET u == req'[r].user_id IN
                /\ Recorded(u, now) < HourlyLimit
                /\ Occurrences(user_requests'[u], now) = Occurrences(user_requests[u], now) + 1
                /\ \A v \in RateUsers \ {u} : user_requests'[v] = user_requests[v]
        /\ \A r \in RateRequests :
             (rpc[r] = "new" /\ rpc'[r] = "done") =>
                \A v \in RateUsers, t \in Times :
                    Occurrences(user_requests'[v], t) <= Occurrences(user_requests[v], t)
        /\ \A u \in RateUsers, t \in Times :
             t > now' - Hour =>
                Occurrences(user_requests'[u], t) >= Occurrences(user_requests[u], t)
        /\ \A u \in RateUsers, t \in Times : Recorded(u, t)' <= HourlyLimit ]_vars

\* user 1 was admitted at one instant and, after a request of user 2, at the next; a
\* further request in that hour was rejected for the rate alone, and once the first
\* admission was an hour old the user was admitted again
C31_Witness ==
    /\ req[1].user_id = 1 /\ rpc[1] = "admitted"
    /\ req[2].user_id = 2 /\ rpc[2] = "admitted"
    /\ req[3].user_id = 1 /\ rpc[3] = "admitted"
    /\ req[4].user_id = 1 /\ outcome[4] = "rate_limited"
    /\ req[5].user_id = 1 /\ rpc[5] = "admitted"
    /\ user_processing[1] = 0
    /\ user_requests[1] = <<Epoch + 1, Epoch + 2>>



\* the call for request r is turned away by the validation in this step
Rejected(r) == rpc[r] = "admitted" /\ outcome'[r] \in Rejections

\* C33: a request that is turned away for a missing or oversize file, a failed
\* download, an unreadable file, a duration out of bounds or an unknown preset creates
\* no task: enqueue is not called for it, the task table, the per-user index and the
\* queue stay as they are, the counter of its user is not touched, and its input file
\* is not left on disk.  No call leaves an input file behind.
C33_RejectionCreatesNoTask ==
    [][\A r \in Requests :
          Rejected(r) =>
             /\ UNCHANGED <<tasks, user_tasks, queue, unfinished, nextid, ret, files, closure>>
             /\ UNCHANGED user_processing
             /\ r \notin downloads'
             /\ downloads' = {}]_vars

\* the first request was enqueued and its task is in the table; the second was turned
\* away for its duration and the third for its preset name, and the table and the
\* index hold the first task alone
C33_Witness ==
    /\ outcome[1] = "enqueued"
    /\ outcome[2] = "too_long"
    /\ outcome[3] = "unknown_preset"
    /\ DOMAIN tasks = {1}
    /\ user_tasks[1] = <<1>>
    /\ nextid = 2
    /\ downloads = {}



\* the tasks of user u that are queued or processing
ActiveOf(u) == {t \in DOMAIN tasks : tasks[t].user_id = u /\ StatusOf(t) \in Active}

\* C32: the counter of a user is balanced: whenever none of the user's tasks is queued
\* or processing, user_processing[user] is 0, so that _check_rate_limit does not turn
\* the user away for concurrency.  (A task that has just become terminal has its
\* callback, and with it the decrement, as the next thing the dispatcher runs: that
\* moment is left out.)
C32_AccountingBalanced ==
    \A u \in Users :
        (pc # "finally" /\ ActiveOf(u) = {}) => user_processing[u] = 0



\* C38: payload and metadata of a key go together: when no set() and no get() call is
\* in progress, every cache path has either both its payload and its metadata file or
\* neither; in particular the key of a set() that has returned True has both.
C38_EntryIsPaired ==
    (cpc = "idle" /\ gpc = "idle")
        => \A cp \in Paths : (payload[cp].size > 0) <=> meta[cp].file


====
